---- MODULE Spec2Model ----
(***************************************************************************)
(* AlphaSparse triangular / diagonal solve (trsm): the solve entry point   *)
(* of src/core/op/level3/alphasparse_x_trsm.c, its per-format dispatch     *)
(* tables and the kernels they select.                                     *)
(*                                                                         *)
(* One call of the entry point is one step: Call draws the arguments and   *)
(* takes the state from "idle" to "returned" (a status came back) or to    *)
(* "crashed" (the process died inside the call).  Release hands the        *)
(* buffers back to the caller, who may call again.                         *)
(***************************************************************************)
EXTENDS Integers, Sequences, FiniteSets, TLC

VARIABLES
    pc,        \* "idle" | "returned" | "crashed"
    COMPLEX,   \* build configuration: TRUE when the file is compiled with -DCOMPLEX
    args,      \* the arguments of the call in progress / just finished
    status,    \* the alphasparse_status_t returned ("NONE" while idle or crashed)
    kernel,    \* the kernel the entry point invoked ("none" when it invoked none)
    slots,     \* the dispatch-table slots the call read: set of [table, index, len]
    ymem,      \* the caller's output buffer (flat, offsets 0..YLen-1)
    y0,        \* the output buffer as it was when the call started
    written,   \* the offsets of ymem the call stored to
    xmem,      \* the caller's input buffer x
    \* --- diagsm_coo_n_row run step by step ---
    kpc,       \* "idle" | "extract" | "apply" | "done": where the kernel stands
    kin,       \* the kernel's arguments, the thread count and the schedule
    kA,        \* the COO storage the kernel was handed (A)
    kx,        \* the dense input buffer (x)
    ky,        \* the dense output buffer (y)
    kdiag,     \* the scratch array diag[A->rows]
    edone,     \* iterations of the extraction loop that have run
    lasthit,   \* per row: the iteration whose store to diag[row] came last (0: none)
    adone,     \* per worker: the (r, c) iterations of the application loop it has run
    xreads,    \* offsets of x the kernel has loaded
    yreads,    \* offsets of y the kernel has loaded
    ywrites,   \* per offset of y: how many stores the kernel has made to it
    ywho,      \* per offset of y: the workers that stored to it
    reordered, \* the loops in which an iteration ran before a lower-numbered one
    kstatus,   \* the status the kernel returned ("NONE" before it returns)
    \* --- the GEBSR export accessor ---
    gpc,       \* "idle" | "returned" | "crashed"
    gin,       \* the arguments of the call: the handle and which outputs are null
    gsrc,      \* the handle, as it is now
    gout,      \* the caller's ten output variables
    gstatus,   \* the status returned ("NONE" while idle or crashed)
    \* --- the plain COO unit-lower conjugate-transpose trmv kernel ---
    tpc,       \* "idle" | "returned"
    tin,       \* the arguments of the call
    ty,        \* the vector y
    tstatus    \* the status returned ("NONE" while idle)

evars == <<pc, COMPLEX, args, status, kernel, slots, ymem, y0, written, xmem>>

kvars == <<kpc, kin, kA, kx, ky, kdiag, edone, lasthit, adone, xreads, yreads,
           ywrites, ywho, reordered, kstatus>>

gvars == <<gpc, gin, gsrc, gout, gstatus>>

tvars == <<tpc, tin, ty, tstatus>>

vars == <<evars, kvars, gvars, tvars>>

-----------------------------------------------------------------------------
(* Bounds of the model *)

\* operation is drawn from 0..MaxOperation (0..2 are the declared values)
MaxOperation == 3
\* layout, fill mode and diag flag are drawn from 0..MaxField (0..1 are declared)
MaxField == 2
\* number of right-hand-side columns (and the leading dimensions) of a call
MaxColumns == 2
\* alpha_get_thread_num() is drawn from 1..MaxThreads
MaxThreads == 2

-----------------------------------------------------------------------------
(* Status codes, enumerations (alphasparse/types.h, not among the sources) *)

ALPHA_SPARSE_STATUS_SUCCESS         == "SUCCESS"
ALPHA_SPARSE_STATUS_NOT_INITIALIZED == "NOT_INITIALIZED"
ALPHA_SPARSE_STATUS_INVALID_VALUE   == "INVALID_VALUE"
ALPHA_SPARSE_STATUS_NOT_SUPPORTED   == "NOT_SUPPORTED"

Statuses ==
    { ALPHA_SPARSE_STATUS_SUCCESS, ALPHA_SPARSE_STATUS_NOT_INITIALIZED,
      ALPHA_SPARSE_STATUS_INVALID_VALUE, ALPHA_SPARSE_STATUS_NOT_SUPPORTED }

ALPHA_SPARSE_OPERATION_NON_TRANSPOSE       == 0
ALPHA_SPARSE_OPERATION_TRANSPOSE           == 1
ALPHA_SPARSE_OPERATION_CONJUGATE_TRANSPOSE == 2

ALPHA_SPARSE_LAYOUT_ROW_MAJOR    == 0
ALPHA_SPARSE_LAYOUT_COLUMN_MAJOR == 1
ALPHA_SPARSE_LAYOUT_NUM          == 2

ALPHA_SPARSE_FILL_MODE_LOWER == 0
ALPHA_SPARSE_FILL_MODE_UPPER == 1
ALPHA_SPARSE_FILL_MODE_NUM   == 2

ALPHA_SPARSE_DIAG_NON_UNIT == 0
ALPHA_SPARSE_DIAG_UNIT     == 1
ALPHA_SPARSE_DIAG_TYPE_NUM == 2

ALPHA_SPARSE_MATRIX_TYPE_GENERAL    == "GENERAL"
ALPHA_SPARSE_MATRIX_TYPE_SYMMETRIC  == "SYMMETRIC"
ALPHA_SPARSE_MATRIX_TYPE_TRIANGULAR == "TRIANGULAR"
ALPHA_SPARSE_MATRIX_TYPE_DIAGONAL   == "DIAGONAL"

MatrixTypes ==
    { ALPHA_SPARSE_MATRIX_TYPE_GENERAL, ALPHA_SPARSE_MATRIX_TYPE_SYMMETRIC,
      ALPHA_SPARSE_MATRIX_TYPE_TRIANGULAR, ALPHA_SPARSE_MATRIX_TYPE_DIAGONAL }

ALPHA_SPARSE_FORMAT_COO   == "coo"
ALPHA_SPARSE_FORMAT_CSR   == "csr"
ALPHA_SPARSE_FORMAT_CSC   == "csc"
ALPHA_SPARSE_FORMAT_BSR   == "bsr"
ALPHA_SPARSE_FORMAT_SKY   == "sky"
ALPHA_SPARSE_FORMAT_DIA   == "dia"
ALPHA_SPARSE_FORMAT_GEBSR == "gebsr"

Formats ==
    { ALPHA_SPARSE_FORMAT_COO, ALPHA_SPARSE_FORMAT_CSR, ALPHA_SPARSE_FORMAT_CSC,
      ALPHA_SPARSE_FORMAT_BSR, ALPHA_SPARSE_FORMAT_SKY, ALPHA_SPARSE_FORMAT_DIA,
      ALPHA_SPARSE_FORMAT_GEBSR }

\* the element datatype this build of the entry point is compiled for, and
\* the datatypes a handle can carry
ALPHA_SPARSE_DATATYPE == "DOUBLE"
Datatypes == { "DOUBLE", "FLOAT" }

-----------------------------------------------------------------------------
(* util.h index macros *)

\* #define index2(y, x, ldx) ((x) + (ldx) * (y))
index2(y, x, ldx) == x + ldx * y

\* #define index4(d, c, b, a, ldc, ldb, lda) index2(index2(index2(d,c,ldc),b,ldb),a,lda)
index4(d, c, b, a, ldc, ldb, lda) ==
    index2(index2(index2(d, c, ldc), b, ldb), a, lda)

-----------------------------------------------------------------------------
(* The dispatch tables of alphasparse_x_trsm.c, slot by slot as the source *)
(* lists them.  A kernel is named by its C identifier; the conjugate       *)
(* block exists only in a COMPLEX build (#ifdef COMPLEX).                  *)

NULL == "NULL"

trsm_csr_diag_fill_layout_operation ==
    <<
      "trsm_csr_n_lo_row", "trsm_csr_u_lo_row",
      "trsm_csr_n_hi_row", "trsm_csr_u_hi_row",
      "trsm_csr_n_lo_col", "trsm_csr_u_lo_col",
      "trsm_csr_n_hi_col", "trsm_csr_u_hi_col",
      "trsm_csr_n_lo_row_trans", "trsm_csr_u_lo_row_trans",
      "trsm_csr_n_hi_row_trans", "trsm_csr_u_hi_row_trans",
      "trsm_csr_n_lo_col_trans", "trsm_csr_u_lo_col_trans",
      "trsm_csr_n_hi_col_trans", "trsm_csr_u_hi_col_trans"
    >> \o
    (IF COMPLEX THEN
      <<
        "trsm_csr_n_lo_row_conj", "trsm_csr_u_lo_row_conj",
        "trsm_csr_n_hi_row_conj", "trsm_csr_u_hi_row_conj",
        "trsm_csr_n_lo_col_conj", "trsm_csr_u_lo_col_conj",
        "trsm_csr_n_hi_col_conj", "trsm_csr_u_hi_col_conj"
      >>
     ELSE << >>)

diagsm_csr_diag_layout ==
    << "diagsm_csr_n_row", "diagsm_csr_u_row", "diagsm_csr_n_col", "diagsm_csr_u_col" >>

trsm_csc_diag_fill_layout_operation ==
    <<
      "trsm_csc_n_lo_row", "trsm_csc_u_lo_row",
      "trsm_csc_n_hi_row", "trsm_csc_u_hi_row",
      "trsm_csc_n_lo_col", "trsm_csc_u_lo_col",
      "trsm_csc_n_hi_col", "trsm_csc_u_hi_col",
      "trsm_csc_n_lo_row_trans", "trsm_csc_u_lo_row_trans",
      "trsm_csc_n_hi_row_trans", "trsm_csc_u_hi_row_trans",
      "trsm_csc_n_lo_col_trans", "trsm_csc_u_lo_col_trans",
      "trsm_csc_n_hi_col_trans", "trsm_csc_u_hi_col_trans"
    >> \o
    (IF COMPLEX THEN
      <<
        "trsm_csc_n_lo_row_conj", "trsm_csc_u_lo_row_conj",
        "trsm_csc_n_hi_row_conj", "trsm_csc_u_hi_row_conj",
        "trsm_csc_n_lo_col_conj", "trsm_csc_u_lo_col_conj",
        "trsm_csc_n_hi_col_conj", "trsm_csc_u_hi_col_conj"
      >>
     ELSE << >>)

diagsm_csc_diag_layout ==
    << "diagsm_csc_n_row", "diagsm_csc_u_row", "diagsm_csc_n_col", "diagsm_csc_u_col" >>

\* the COO table with one kernel not written yet
trsm_coo_with_empty_slot ==
    <<
      "trsm_coo_n_lo_row", "trsm_coo_u_lo_row",
      "trsm_coo_n_hi_row", "trsm_coo_u_hi_row",
      "trsm_coo_n_lo_col", "trsm_coo_u_lo_col",
      "trsm_coo_n_hi_col", "trsm_coo_u_hi_col",
      "trsm_coo_n_lo_row_trans", "trsm_coo_u_lo_row_trans",
      "trsm_coo_n_hi_row_trans", "trsm_coo_u_hi_row_trans",
      "trsm_coo_n_lo_col_trans", "trsm_coo_u_lo_col_trans",
      "trsm_coo_n_hi_col_trans", NULL
    >> \o
    (IF COMPLEX THEN
      <<
        "trsm_coo_n_lo_row_conj", "trsm_coo_u_lo_row_conj",
        "trsm_coo_n_hi_row_conj", "trsm_coo_u_hi_row_conj",
        "trsm_coo_n_lo_col_conj", "trsm_coo_u_lo_col_conj",
        "trsm_coo_n_hi_col_conj", "trsm_coo_u_hi_col_conj"
      >>
     ELSE << >>)

trsm_coo_diag_fill_layout_operation ==
    <<
      "trsm_coo_n_lo_row", "trsm_coo_u_lo_row",
      "trsm_coo_n_hi_row", "trsm_coo_u_hi_row",
      "trsm_coo_n_lo_col", "trsm_coo_u_lo_col",
      "trsm_coo_n_hi_col", "trsm_coo_u_hi_col",
      "trsm_coo_n_lo_row_trans", "trsm_coo_u_lo_row_trans",
      "trsm_coo_n_hi_row_trans", "trsm_coo_u_hi_row_trans",
      "trsm_coo_n_lo_col_trans", "trsm_coo_u_lo_col_trans",
      "trsm_coo_n_hi_col_trans", "trsm_coo_u_hi_col_trans"
    >> \o
    (IF COMPLEX THEN
      <<
        "trsm_coo_n_lo_row_conj", "trsm_coo_u_lo_row_conj",
        "trsm_coo_n_hi_row_conj", "trsm_coo_u_hi_row_conj",
        "trsm_coo_n_lo_col_conj", "trsm_coo_u_lo_col_conj",
        "trsm_coo_n_hi_col_conj", "trsm_coo_u_hi_col_conj"
      >>
     ELSE << >>)

diagsm_coo_diag_layout ==
    << "diagsm_coo_n_row", "diagsm_coo_u_row", "diagsm_coo_n_col", "diagsm_coo_u_col" >>

trsm_bsr_diag_fill_layout_operation ==
    <<
      "trsm_bsr_n_lo_row", "trsm_bsr_u_lo_row",
      "trsm_bsr_n_hi_row", "trsm_bsr_u_hi_row",
      "trsm_bsr_n_lo_col", "trsm_bsr_u_lo_col",
      "trsm_bsr_n_hi_col", "trsm_bsr_u_hi_col",
      "trsm_bsr_n_lo_row_trans", "trsm_bsr_u_lo_row_trans",
      "trsm_bsr_n_hi_row_trans", "trsm_bsr_u_hi_row_trans",
      "trsm_bsr_n_lo_col_trans", "trsm_bsr_u_lo_col_trans",
      "trsm_bsr_n_hi_col_trans", "trsm_bsr_u_hi_col_trans"
    >> \o
    (IF COMPLEX THEN
      <<
        "trsm_bsr_n_lo_row_conj", "trsm_bsr_u_lo_row_conj",
        "trsm_bsr_n_hi_row_conj", "trsm_bsr_u_hi_row_conj",
        "trsm_bsr_n_lo_col_conj", "trsm_bsr_u_lo_col_conj",
        "trsm_bsr_n_hi_col_conj", "trsm_bsr_u_hi_col_conj"
      >>
     ELSE << >>)

diagsm_bsr_diag_layout ==
    << "diagsm_bsr_n_row", "diagsm_bsr_u_row", "diagsm_bsr_n_col", "diagsm_bsr_u_col" >>

trsm_sky_diag_fill_layout_operation ==
    <<
      "trsm_sky_n_lo_row", "trsm_sky_u_lo_row",
      "trsm_sky_n_hi_row", "trsm_sky_u_hi_row",
      "trsm_sky_n_lo_col", "trsm_sky_u_lo_col",
      "trsm_sky_n_hi_col", "trsm_sky_u_hi_col",
      "trsm_sky_n_lo_row_trans", "trsm_sky_u_lo_row_trans",
      "trsm_sky_n_hi_row_trans", "trsm_sky_u_hi_row_trans",
      "trsm_sky_n_lo_col_trans", "trsm_sky_u_lo_col_trans",
      "trsm_sky_n_hi_col_trans", "trsm_sky_u_hi_col_trans"
    >> \o
    (IF COMPLEX THEN
      <<
        "trsm_sky_n_lo_row_conj", "trsm_sky_u_lo_row_conj",
        "trsm_sky_n_hi_row_conj", "trsm_sky_u_hi_row_conj",
        "trsm_sky_n_lo_col_conj", "trsm_sky_u_lo_col_conj",
        "trsm_sky_n_hi_col_conj", "trsm_sky_u_hi_col_conj"
      >>
     ELSE << >>)

diagsm_sky_diag_layout ==
    << "diagsm_sky_n_row", "diagsm_sky_u_row", "diagsm_sky_n_col", "diagsm_sky_u_col" >>

trsm_dia_diag_fill_layout_operation ==
    <<
      "trsm_dia_n_lo_row", "trsm_dia_u_lo_row",
      "trsm_dia_n_hi_row", "trsm_dia_u_hi_row",
      "trsm_dia_n_lo_col", "trsm_dia_u_lo_col",
      "trsm_dia_n_hi_col", "trsm_dia_u_hi_col",
      "trsm_dia_n_lo_row_trans", "trsm_dia_u_lo_row_trans",
      "trsm_dia_n_hi_row_trans", "trsm_dia_u_hi_row_trans",
      "trsm_dia_n_lo_col_trans", "trsm_dia_u_lo_col_trans",
      "trsm_dia_n_hi_col_trans", "trsm_dia_u_hi_col_trans"
    >> \o
    (IF COMPLEX THEN
      <<
        "trsm_dia_n_lo_row_conj", "trsm_dia_u_lo_row_conj",
        "trsm_dia_n_hi_row_conj", "trsm_dia_u_hi_row_conj",
        "trsm_dia_n_lo_col_conj", "trsm_dia_u_lo_col_conj",
        "trsm_dia_n_hi_col_conj", "trsm_dia_u_hi_col_conj"
      >>
     ELSE << >>)

diagsm_dia_diag_layout ==
    << "diagsm_dia_n_row", "diagsm_dia_u_row", "diagsm_dia_n_col", "diagsm_dia_u_col" >>

-----------------------------------------------------------------------------
(* ALPHA_Number (real build): exact rationals [num, den], den > 0, in      *)
(* lowest terms; den = 0 holds the IEEE specials a division by zero makes: *)
(* num = 1 is +inf, num = -1 is -inf, num = 0 is NaN.                      *)

RECURSIVE Gcd(_, _)
Gcd(a, b) == IF b = 0 THEN a ELSE Gcd(b, a % b)

Abs(a) == IF a < 0 THEN -a ELSE a

Sign(a) == IF a < 0 THEN -1 ELSE IF a > 0 THEN 1 ELSE 0

Rat(n, d) ==
    IF d = 0 THEN [num |-> Sign(n), den |-> 0]
    ELSE LET g == Gcd(Abs(n), Abs(d))
             s == IF d < 0 THEN -1 ELSE 1
         IN  [num |-> s * (n \div g), den |-> s * (d \div g)]

Num(n) == [num |-> n, den |-> 1]

Zero == Num(0)

\* alpha_mul(c, a, b): c = a * b
alpha_mul(a, b) ==
    IF a.den = 0 \/ b.den = 0
    THEN [num |-> Sign(a.num) * Sign(b.num), den |-> 0]
    ELSE Rat(a.num * b.num, a.den * b.den)

\* alpha_div(c, a, b): c = a / b
alpha_div(a, b) ==
    IF a.den = 0
    THEN (IF b.den = 0 THEN [num |-> 0, den |-> 0]
          ELSE [num |-> a.num * (IF b.num < 0 THEN -1 ELSE 1), den |-> 0])
    ELSE IF b.den = 0
    THEN (IF b.num = 0 THEN [num |-> 0, den |-> 0] ELSE Zero)
    ELSE Rat(a.num * b.den, a.den * b.num)

-----------------------------------------------------------------------------
(* Kernels *)

\* The diagonal scratch vectors the extraction loop of diagsm_coo_n_row can
\* leave: slot i starts 0 (memset) and is stored to by every entry r with
\* row_indx[r] = col_indx[r] = i.  The loop is an OpenMP parallel for, so
\* with several such entries any one of their stores can be the last.
diagsm_coo_n_row_diag(A) ==
    { d \in [0 .. A.rows - 1 -> { A.values[r] : r \in 1 .. A.nnz } \cup { Zero }] :
        \A i \in 0 .. A.rows - 1 :
            LET hits == { r \in 1 .. A.nnz :
                             A.row_indx[r] = i /\ A.col_indx[r] = i }
            IN  IF hits = {} THEN d[i] = Zero
                ELSE \E r \in hits : d[i] = A.values[r] }

\* The cells the application loop of diagsm_coo_n_row stores to
diagsm_coo_n_row_cells(A, columns, ldy) ==
    { index2(r, c, ldy) : r \in 0 .. A.rows - 1, c \in 0 .. columns - 1 }

\* diagsm_coo_n_row: y[index2(r,c,ldy)] = alpha * x[index2(r,c,ldx)] / diag[r]
\* for every r < rows, c < columns; returns SUCCESS.  The set of outcomes,
\* one per scratch vector the extraction can leave.
diagsm_coo_n_row(alpha, A, x, columns, ldx, y, ldy) ==
    { [ status  |-> ALPHA_SPARSE_STATUS_SUCCESS,
        y       |-> [ o \in DOMAIN y |->
                        IF \E r \in 0 .. A.rows - 1, c \in 0 .. columns - 1 :
                               o = index2(r, c, ldy)
                        THEN LET r == CHOOSE r \in 0 .. A.rows - 1 :
                                        \E c \in 0 .. columns - 1 : o = index2(r, c, ldy)
                                 c == o - ldy * r
                             IN  alpha_div(alpha_mul(alpha, x[index2(r, c, ldx)]), diag[r])
                        ELSE y[o] ],
        written |-> diagsm_coo_n_row_cells(A, columns, ldy) ]
      : diag \in diagsm_coo_n_row_diag(A) }

\* A kernel whose source is not at hand: by its contract it overwrites the
\* rows x columns logical cells of y and returns SUCCESS.  The values it
\* computes are left abstract (tagged with the kernel's name).
OtherKernelCells(k, A, columns, ldy) ==
    { index2(r, c, ldy) : r \in 0 .. A.rows - 1, c \in 0 .. columns - 1 }

OtherKernel(k, alpha, A, x, columns, ldx, y, ldy) ==
    { [ status  |-> ALPHA_SPARSE_STATUS_SUCCESS,
        y       |-> [ o \in DOMAIN y |->
                        IF o \in OtherKernelCells(k, A, columns, ldy)
                        THEN [by |-> k] ELSE y[o] ],
        written |-> OtherKernelCells(k, A, columns, ldy) ] }

\* Calling through a function pointer: the kernel named k runs
RunKernel(k, alpha, A, x, columns, ldx, y, ldy) ==
    IF k = "diagsm_coo_n_row"
    THEN diagsm_coo_n_row(alpha, A, x, columns, ldx, y, ldy)
    ELSE OtherKernel(k, alpha, A, x, columns, ldx, y, ldy)

-----------------------------------------------------------------------------
(* The solve entry point, alphasparse_x_trsm.c 849-979 *)

\* What one call can come to: how it ended (pc), the status returned, the
\* kernel invoked, the table slots read, the output buffer, the offsets
\* of it that were stored to, and the input buffer.
Return(st, x, y) ==
    [ pc |-> "returned", status |-> st, kernel |-> "none", slots |-> {},
      y |-> y.mem, written |-> {}, x |-> x.mem ]

\* A->mat with A == NULL: a read through a null pointer; the process dies
NullDereference(x, y) ==
    { [ pc |-> "crashed", status |-> "NONE", kernel |-> "none", slots |-> {},
        y |-> y.mem, written |-> {}, x |-> x.mem ] }

\* A call through a pointer read from beyond the end of a table: control
\* goes to an address nobody chose.  It may die, or come back with any
\* status, having stored to y or not, and to its inputs or not.
WildCall(slot, x, y) ==
    { [ pc |-> "crashed", status |-> "NONE", kernel |-> "wild", slots |-> {slot},
        y |-> y.mem, written |-> {}, x |-> x.mem ] }
    \cup
    { [ pc |-> "returned", status |-> st, kernel |-> "wild", slots |-> {slot},
        y |-> IF w = {} THEN y.mem
              ELSE [ o \in DOMAIN y.mem |-> IF o \in w THEN [by |-> "wild"] ELSE y.mem[o] ],
        written |-> w,
        x |-> IF xw = {} THEN x.mem
              ELSE [ o \in DOMAIN x.mem |-> IF o \in xw THEN [by |-> "wild"] ELSE x.mem[o] ] ]
      : st \in Statuses, w \in { {}, {0} }, xw \in { {}, {0} } }

\* check_null_return(table[i], NOT_SUPPORTED); return table[i](alpha, A->mat, ...):
\* the slot is read with no test of i against the table's length.
CallSlot(tname, table, i, alpha, mat, x, columns, ldx, y, ldy) ==
    LET slot == [table |-> tname, index |-> i, len |-> Len(table)]
    IN  IF i \in 0 .. Len(table) - 1
        THEN IF table[i + 1] = NULL
             THEN { [ Return(ALPHA_SPARSE_STATUS_NOT_SUPPORTED, x, y) EXCEPT !.slots = {slot} ] }
             ELSE { [ pc |-> "returned", status |-> o.status, kernel |-> table[i + 1],
                      slots |-> {slot}, y |-> o.y, written |-> o.written, x |-> x.mem ]
                    : o \in RunKernel(table[i + 1], alpha, mat, x.mem, columns, ldx, y.mem, ldy) }
        ELSE \* beyond the end: the word read is indeterminate, null or not
             { [ Return(ALPHA_SPARSE_STATUS_NOT_SUPPORTED, x, y) EXCEPT !.slots = {slot} ] }
             \cup WildCall(slot, x, y)

\* the datatype check left out
datatype_mismatch_dropped(A) == FALSE

\* line 864: check_return(A->datatype != ALPHA_SPARSE_DATATYPE, INVALID_VALUE)
datatype_mismatch(A) == A.datatype # ALPHA_SPARSE_DATATYPE

\* lines 866-869: #ifndef COMPLEX  if (operation == CONJUGATE_TRANSPOSE) return INVALID_VALUE
conjugate_rejected(operation) ==
    ~COMPLEX /\ operation = ALPHA_SPARSE_OPERATION_CONJUGATE_TRANSPOSE

\* check_equal_row_col(A) (util, not among the sources): the matrix is square
check_equal_row_col(A) == A.mat.rows = A.mat.cols

\* the squareness check left out
not_square_dropped(A) == FALSE

\* line 871: check_return(!check_equal_row_col(A), INVALID_VALUE)
not_square(A) == ~check_equal_row_col(A)

\* the chain with GEBSR sent to the BSR tables
FormatTables_gebsr_as_bsr(format) ==
    IF format = ALPHA_SPARSE_FORMAT_CSR
    THEN << [trsm |-> trsm_csr_diag_fill_layout_operation, diagsm |-> diagsm_csr_diag_layout, f |-> "csr"] >>
    ELSE IF format = ALPHA_SPARSE_FORMAT_CSC
    THEN << [trsm |-> trsm_csc_diag_fill_layout_operation, diagsm |-> diagsm_csc_diag_layout, f |-> "csc"] >>
    ELSE IF format = ALPHA_SPARSE_FORMAT_COO
    THEN << [trsm |-> trsm_coo_diag_fill_layout_operation, diagsm |-> diagsm_coo_diag_layout, f |-> "coo"] >>
    ELSE IF format = ALPHA_SPARSE_FORMAT_SKY
    THEN << [trsm |-> trsm_sky_diag_fill_layout_operation, diagsm |-> diagsm_sky_diag_layout, f |-> "sky"] >>
    ELSE IF format = ALPHA_SPARSE_FORMAT_BSR \/ format = ALPHA_SPARSE_FORMAT_GEBSR
    THEN << [trsm |-> trsm_bsr_diag_fill_layout_operation, diagsm |-> diagsm_bsr_diag_layout, f |-> "bsr"] >>
    ELSE IF format = ALPHA_SPARSE_FORMAT_DIA
    THEN << [trsm |-> trsm_dia_diag_fill_layout_operation, diagsm |-> diagsm_dia_diag_layout, f |-> "dia"] >>
    ELSE << >>

\* the tables of the if/else-if chain on A->format (lines 873, 890, 907, 924, 941, 958);
\* << >> for the final else (line 975)
FormatTables(format) ==
    IF format = ALPHA_SPARSE_FORMAT_CSR
    THEN << [trsm |-> trsm_csr_diag_fill_layout_operation, diagsm |-> diagsm_csr_diag_layout, f |-> "csr"] >>
    ELSE IF format = ALPHA_SPARSE_FORMAT_CSC
    THEN << [trsm |-> trsm_csc_diag_fill_layout_operation, diagsm |-> diagsm_csc_diag_layout, f |-> "csc"] >>
    ELSE IF format = ALPHA_SPARSE_FORMAT_COO
    THEN << [trsm |-> trsm_coo_diag_fill_layout_operation, diagsm |-> diagsm_coo_diag_layout, f |-> "coo"] >>
    ELSE IF format = ALPHA_SPARSE_FORMAT_SKY
    THEN << [trsm |-> trsm_sky_diag_fill_layout_operation, diagsm |-> diagsm_sky_diag_layout, f |-> "sky"] >>
    ELSE IF format = ALPHA_SPARSE_FORMAT_BSR
    THEN << [trsm |-> trsm_bsr_diag_fill_layout_operation, diagsm |-> diagsm_bsr_diag_layout, f |-> "bsr"] >>
    ELSE IF format = ALPHA_SPARSE_FORMAT_DIA
    THEN << [trsm |-> trsm_dia_diag_fill_layout_operation, diagsm |-> diagsm_dia_diag_layout, f |-> "dia"] >>
    ELSE << >>

\* the key with fill mode and diag flag in each other's place
trsm_key_swapped(operation, layout, descr) ==
    index4(operation, layout, descr.diag, descr.mode,
           ALPHA_SPARSE_LAYOUT_NUM, ALPHA_SPARSE_FILL_MODE_NUM, ALPHA_SPARSE_DIAG_TYPE_NUM)

\* the key of a triangular solve (line 877 and its five copies)
trsm_key(operation, layout, descr) ==
    index4(operation, layout, descr.mode, descr.diag,
           ALPHA_SPARSE_LAYOUT_NUM, ALPHA_SPARSE_FILL_MODE_NUM, ALPHA_SPARSE_DIAG_TYPE_NUM)

\* the diagonal key with the fill mode mixed in, as the triangular key has it
diagsm_key_with_mode(layout, descr) ==
    index2(index2(layout, descr.mode, ALPHA_SPARSE_FILL_MODE_NUM), descr.diag,
           ALPHA_SPARSE_DIAG_TYPE_NUM)

\* the key of a diagonal solve (line 882 and its five copies)
diagsm_key(layout, descr) == index2(layout, descr.diag, ALPHA_SPARSE_DIAG_TYPE_NUM)

\* the branch on descr.type inside one format (lines 875-888 and its five copies)
DispatchType(t, operation, alpha, A, descr, layout, x, columns, ldx, y, ldy) ==
    IF descr.type = ALPHA_SPARSE_MATRIX_TYPE_TRIANGULAR
    THEN CallSlot("trsm_" \o t.f, t.trsm, trsm_key(operation, layout, descr),
                  alpha, A.mat, x, columns, ldx, y, ldy)
    ELSE IF descr.type = ALPHA_SPARSE_MATRIX_TYPE_DIAGONAL
    THEN CallSlot("diagsm_" \o t.f, t.diagsm, diagsm_key(layout, descr),
                  alpha, A.mat, x, columns, ldx, y, ldy)
    ELSE { Return(ALPHA_SPARSE_STATUS_NOT_SUPPORTED, x, y) }

\* the entry point looking at the format before it checks squareness
ONAME_format_before_square(operation, alpha, A, descr, layout, x, columns, ldx, y, ldy) ==
    IF A.null THEN NullDereference(x, y)
    ELSE IF A.mat.null THEN { Return(ALPHA_SPARSE_STATUS_NOT_INITIALIZED, x, y) }
    ELSE IF x.null     THEN { Return(ALPHA_SPARSE_STATUS_NOT_INITIALIZED, x, y) }
    ELSE IF y.null     THEN { Return(ALPHA_SPARSE_STATUS_NOT_INITIALIZED, x, y) }
    ELSE IF datatype_mismatch(A)          THEN { Return(ALPHA_SPARSE_STATUS_INVALID_VALUE, x, y) }
    ELSE IF conjugate_rejected(operation) THEN { Return(ALPHA_SPARSE_STATUS_INVALID_VALUE, x, y) }
    ELSE IF FormatTables(A.format) = << >>
    THEN { Return(ALPHA_SPARSE_STATUS_NOT_SUPPORTED, x, y) }
    ELSE IF not_square(A)                 THEN { Return(ALPHA_SPARSE_STATUS_INVALID_VALUE, x, y) }
    ELSE DispatchType(FormatTables(A.format)[1], operation, alpha, A, descr, layout,
                      x, columns, ldx, y, ldy)

\* ONAME: the outcomes of one call
ONAME(operation, alpha, A, descr, layout, x, columns, ldx, y, ldy) ==
    IF A.null THEN NullDereference(x, y)
    ELSE IF A.mat.null THEN { Return(ALPHA_SPARSE_STATUS_NOT_INITIALIZED, x, y) }
    ELSE IF x.null     THEN { Return(ALPHA_SPARSE_STATUS_NOT_INITIALIZED, x, y) }
    ELSE IF y.null     THEN { Return(ALPHA_SPARSE_STATUS_NOT_INITIALIZED, x, y) }
    ELSE IF datatype_mismatch(A)          THEN { Return(ALPHA_SPARSE_STATUS_INVALID_VALUE, x, y) }
    ELSE IF conjugate_rejected(operation) THEN { Return(ALPHA_SPARSE_STATUS_INVALID_VALUE, x, y) }
    ELSE IF not_square(A)                 THEN { Return(ALPHA_SPARSE_STATUS_INVALID_VALUE, x, y) }
    ELSE IF FormatTables(A.format) # << >>
    THEN DispatchType(FormatTables(A.format)[1], operation, alpha, A, descr, layout,
                      x, columns, ldx, y, ldy)
    ELSE { Return(ALPHA_SPARSE_STATUS_NOT_SUPPORTED, x, y) }

-----------------------------------------------------------------------------
(* The callers' inputs *)

\* a 2 x 2 COO matrix: diagonal (2, 4), one entry below it
SquareCoo ==
    [ null |-> FALSE, rows |-> 2, cols |-> 2, nnz |-> 3,
      row_indx |-> <<0, 1, 1>>, col_indx |-> <<0, 0, 1>>,
      values   |-> << Num(2), Num(1), Num(4) >> ]

\* a 2 x 3 matrix
WideCoo ==
    [ null |-> FALSE, rows |-> 2, cols |-> 3, nnz |-> 4,
      row_indx |-> <<0, 1, 1, 0>>, col_indx |-> <<0, 0, 1, 2>>,
      values   |-> << Num(2), Num(1), Num(4), Num(5) >> ]

NoMat == [ null |-> TRUE ]

Mats == { NoMat, SquareCoo, WideCoo }

NullHandle == [ null |-> TRUE ]

Handles ==
    { NullHandle } \cup
    { [ null |-> FALSE, mat |-> m, datatype |-> dt, format |-> f ]
      : m \in Mats, dt \in Datatypes, f \in Formats }

Operations == 0 .. MaxOperation
Fields     == 0 .. MaxField

Descrs ==
    { [ type |-> t, mode |-> m, diag |-> d ]
      : t \in { ALPHA_SPARSE_MATRIX_TYPE_GENERAL, ALPHA_SPARSE_MATRIX_TYPE_TRIANGULAR,
                ALPHA_SPARSE_MATRIX_TYPE_DIAGONAL },
        m \in Fields, d \in Fields }

\* the dense buffers: 2 rows, leading dimension MaxColumns
BufLen == 2 * MaxColumns

XMem == [ o \in 0 .. BufLen - 1 |-> Num(o + 1) ]
YMem == [ o \in 0 .. BufLen - 1 |-> Num(7) ]

NoArgs == [ none |-> TRUE ]

-----------------------------------------------------------------------------
(* The state machine *)

\* no call of the entry point is under way
EntryIdle ==
    /\ pc = "idle"
    /\ args = NoArgs
    /\ status = "NONE"
    /\ kernel = "none"
    /\ slots = {}
    /\ ymem = YMem
    /\ y0 = YMem
    /\ written = {}
    /\ xmem = XMem

\* no kernel is being stepped through
KernelIdle ==
    /\ kpc = "idle"
    /\ kin = NoArgs
    /\ kA = NoMat
    /\ kx = << >>
    /\ ky = << >>
    /\ kdiag = << >>
    /\ edone = {}
    /\ lasthit = << >>
    /\ adone = << >>
    /\ xreads = {}
    /\ yreads = {}
    /\ ywrites = << >>
    /\ ywho = << >>
    /\ reordered = {}
    /\ kstatus = "NONE"

\* no export is under way
GebsrIdle ==
    /\ gpc = "idle"
    /\ gin = NoArgs
    /\ gsrc = NullHandle
    /\ gout = << >>
    /\ gstatus = "NONE"

\* no trmv is under way
TrmvIdle ==
    /\ tpc = "idle"
    /\ tin = NoArgs
    /\ ty = << >>
    /\ tstatus = "NONE"

Init ==
    /\ EntryIdle
    /\ COMPLEX \in BOOLEAN
    /\ KernelIdle
    /\ GebsrIdle
    /\ TrmvIdle

\* one call of the entry point, from the caller's arguments to its end
Call ==
    /\ pc = "idle"
    /\ \E A \in Handles, operation \in Operations, descr \in Descrs, layout \in Fields,
          xnull \in BOOLEAN, ynull \in BOOLEAN :
         LET a == [ none |-> FALSE, A |-> A, operation |-> operation, descr |-> descr,
                    layout |-> layout, alpha |-> Num(2),
                    x |-> [null |-> xnull, mem |-> XMem],
                    y |-> [null |-> ynull],
                    columns |-> MaxColumns, ldx |-> MaxColumns, ldy |-> MaxColumns ]
         IN  \E o \in ONAME(a.operation, a.alpha, a.A, a.descr, a.layout, a.x,
                            a.columns, a.ldx, [null |-> ynull, mem |-> ymem], a.ldy) :
               /\ args' = a
               /\ pc' = o.pc
               /\ status' = o.status
               /\ kernel' = o.kernel
               /\ slots' = o.slots
               /\ ymem' = o.y
               /\ written' = o.written
               /\ xmem' = o.x
    /\ y0' = ymem
    /\ UNCHANGED COMPLEX
    /\ UNCHANGED <<kvars, gvars, tvars>>

\* the caller takes the result and is ready for another call on fresh buffers
Release ==
    /\ pc = "returned"
    /\ pc' = "idle"
    /\ args' = NoArgs
    /\ status' = "NONE"
    /\ kernel' = "none"
    /\ slots' = {}
    /\ ymem' = YMem
    /\ y0' = YMem
    /\ written' = {}
    /\ xmem' = XMem
    /\ UNCHANGED COMPLEX
    /\ UNCHANGED <<kvars, gvars, tvars>>

Next == Call \/ Release

Spec == Init /\ [][Next]_vars

-----------------------------------------------------------------------------
(* diagsm_coo_n_row (diagsm_x_coo_n_row.c) run step by step: one step per    *)
(* loop iteration, the iterations of each parallel for shared out among     *)
(* the workers                                                              *)

\* a + b, for finite a and b
alpha_add(a, b) == Rat(a.num * b.den + b.num * a.den, a.den * b.den)

\* #pragma omp parallel for num_threads(T) over the iterations S: the ways
\* the runtime can share S out among at most T workers.  Each worker runs
\* its share in increasing order.  Workers are numbered by the first
\* iteration they get (which thread is which makes no difference).
Schedules(S, T) ==
    { f \in [S -> 1 .. T] :
        \A i \in S : f[i] = 1 \/ \E j \in S : j < i /\ f[j] >= f[i] - 1 }

\* the iterations of the extraction loop that hit the diagonal slot of row i
DiagEntries(A, i) ==
    { r \in 1 .. A.nnz : A.row_indx[r] = i /\ A.col_indx[r] = i }

\* the extraction adding the entry to the slot
extract_store_accumulating(d, A, r) ==
    IF A.row_indx[r] = A.col_indx[r]
    THEN [d EXCEPT ![A.row_indx[r]] = alpha_add(@, A.values[r])]
    ELSE d

\* every entry stored into the slot of its row, diagonal or not
extract_store_any_entry(d, A, r) == [d EXCEPT ![A.row_indx[r]] = A.values[r]]

\* lines 18-21: if (row_indx[r] == col_indx[r]) diag[row_indx[r]] = values[r]
extract_store(d, A, r) ==
    IF A.row_indx[r] = A.col_indx[r]
    THEN [d EXCEPT ![A.row_indx[r]] = A.values[r]]
    ELSE d

\* the barrier counting one arrival short
extraction_complete_one_short(done, A) == Cardinality(done) >= A.nnz - 1

\* the first parallel for ended with nowait
extraction_complete_nowait(done, A) == TRUE

\* the implicit barrier that ends the first parallel for (lines 13-22): every
\* iteration has run
extraction_complete(done, A) == done = 1 .. A.nnz

\* the inner loop as a do-while
ApplyIterations_at_least_one(A, columns) ==
    { <<r, c>> : r \in 0 .. A.rows - 1,
                 c \in 0 .. (IF columns > 0 THEN columns - 1 ELSE 0) }

\* the inner loop running to the end of the padded row (c <= columns)
ApplyIterations_through_padding(A, columns) ==
    { <<r, c>> : r \in 0 .. A.rows - 1, c \in 0 .. columns }

\* lines 27, 29: for (r = 0; r < A->rows; ++r) for (c = 0; c < columns; ++c)
ApplyIterations(A, columns) ==
    { <<r, c>> : r \in 0 .. A.rows - 1, c \in 0 .. columns - 1 }

\* a parallel region without the worksharing for: every worker runs every row
owned_cells_every_worker(rowner, w, A, columns) == ApplyIterations(A, columns)

\* lines 24-29: the parallel for shares out the rows; the columns of a row
\* are all run by the worker that got the row
owned_cells(rowner, w, A, columns) ==
    { it \in ApplyIterations(A, columns) : rowner[it[1]] = w }

\* the cell computed without alpha
apply_cell_without_alpha(alpha, x, ldx, d, r, c) ==
    alpha_div(x[index2(r, c, ldx)], d[r])

\* lines 31-33: t = alpha * x[index2(r, c, ldx)]; the value stored is t / diag[r]
apply_cell(alpha, x, ldx, d, r, c) ==
    alpha_div(alpha_mul(alpha, x[index2(r, c, ldx)]), d[r])

\* the cell added to what y holds
apply_step_accumulating(alpha, x, ldx, y, ldy, d, r, c) ==
    [ y      |-> [y EXCEPT ![index2(r, c, ldy)] =
                     IF @.den = 0 THEN @
                     ELSE alpha_add(@, apply_cell(alpha, x, ldx, d, r, c))],
      xread  |-> { index2(r, c, ldx) },
      yread  |-> { index2(r, c, ldy) },
      ywrite |-> index2(r, c, ldy) ]

\* lines 31-33, one (r, c) iteration: what it loads and what it stores
apply_step(alpha, x, ldx, y, ldy, d, r, c) ==
    [ y      |-> [y EXCEPT ![index2(r, c, ldy)] = apply_cell(alpha, x, ldx, d, r, c)],
      xread  |-> { index2(r, c, ldx) },
      yread  |-> {},
      ywrite |-> index2(r, c, ldy) ]

\* The matrices handed to the kernel: SquareCoo (every diagonal entry stored
\* once) and the three below.
\* two entries at (0,0)
DupCoo ==
    [ null |-> FALSE, rows |-> 2, cols |-> 2, nnz |-> 3,
      row_indx |-> <<0, 0, 1>>, col_indx |-> <<0, 0, 1>>,
      values   |-> << Num(2), Num(4), Num(5) >> ]

\* no entry at (1,1)
HoleCoo ==
    [ null |-> FALSE, rows |-> 2, cols |-> 2, nnz |-> 2,
      row_indx |-> <<0, 1>>, col_indx |-> <<0, 0>>,
      values   |-> << Num(2), Num(1) >> ]

\* no rows and no columns
EmptyCoo ==
    [ null |-> FALSE, rows |-> 0, cols |-> 0, nnz |-> 0,
      row_indx |-> << >>, col_indx |-> << >>, values |-> << >> ]

\* the diagonal of SquareCoo, stored in another order with another
\* off-diagonal entry
SquareCooPermuted ==
    [ null |-> FALSE, rows |-> 2, cols |-> 2, nnz |-> 3,
      row_indx |-> <<1, 0, 0>>, col_indx |-> <<1, 1, 0>>,
      values   |-> << Num(4), Num(3), Num(2) >> ]

\* the entries of DupCoo, the two at (0,0) in the other order
DupCooPermuted ==
    [ null |-> FALSE, rows |-> 2, cols |-> 2, nnz |-> 3,
      row_indx |-> <<0, 1, 0>>, col_indx |-> <<0, 1, 0>>,
      values   |-> << Num(4), Num(5), Num(2) >> ]

KMats == { SquareCoo, SquareCooPermuted, DupCoo, DupCooPermuted, HoleCoo, EmptyCoo }

\* <<ldx, ldy>>: the rows of x and y packed, as the test passes them, or one
\* of the two with a cell of padding after each row
LeadingDims(columns) ==
    { <<columns, columns>>, <<columns + 1, columns>>, <<columns, columns + 1>> }

\* the dense buffers: 2 rows of up to MaxColumns + 1 cells
KBufLen == 2 * (MaxColumns + 1)

KXMem  == [ o \in 0 .. KBufLen - 1 |-> Num(o + 1) ]
KYMems == { [ o \in 0 .. KBufLen - 1 |-> Num(7) ], [ o \in 0 .. KBufLen - 1 |-> Num(9) ] }

\* the least of a non-empty set of iterations, in loop order
FirstOf(S) ==
    CHOOSE it \in S : \A o \in S : it[1] < o[1] \/ (it[1] = o[1] /\ it[2] <= o[2])

KInit ==
    /\ EntryIdle
    /\ COMPLEX = FALSE
    /\ KernelIdle
    /\ GebsrIdle
    /\ TrmvIdle

\* The entry point, called as the test calls it for a diagonal non-unit
\* row-major solve on a COO handle, reaches diagsm_coo_n_row; the kernel
\* declares diag[A->rows], clears it (lines 8-10) and reads the thread
\* count (line 11).
KCall ==
    /\ kpc = "idle"
    /\ \E A \in KMats, columns \in 0 .. MaxColumns, y \in KYMems, T \in 1 .. MaxThreads :
         \E ld \in LeadingDims(columns),
            eo \in Schedules(1 .. A.nnz, T), ro \in Schedules(0 .. A.rows - 1, T) :
           LET handle == [ null |-> FALSE, mat |-> A,
                           datatype |-> ALPHA_SPARSE_DATATYPE,
                           format |-> ALPHA_SPARSE_FORMAT_COO ]
               descr  == [ type |-> ALPHA_SPARSE_MATRIX_TYPE_DIAGONAL,
                           mode |-> ALPHA_SPARSE_FILL_MODE_LOWER,
                           diag |-> ALPHA_SPARSE_DIAG_NON_UNIT ]
           IN  /\ \E o \in ONAME(ALPHA_SPARSE_OPERATION_NON_TRANSPOSE, Num(2), handle,
                                 descr, ALPHA_SPARSE_LAYOUT_ROW_MAJOR,
                                 [null |-> FALSE, mem |-> KXMem], columns, ld[1],
                                 [null |-> FALSE, mem |-> y], ld[2]) :
                     o.kernel = "diagsm_coo_n_row"
               /\ kin' = [ none |-> FALSE, alpha |-> Num(2), A |-> A, x |-> KXMem,
                           columns |-> columns, ldx |-> ld[1], y |-> y, ldy |-> ld[2],
                           num_thread |-> T, eowner |-> eo, rowner |-> ro ]
               /\ kA' = A
               /\ kx' = KXMem
               /\ ky' = y
               /\ kdiag' = [ i \in 0 .. A.rows - 1 |-> Zero ]
               /\ lasthit' = [ i \in 0 .. A.rows - 1 |-> 0 ]
               /\ adone' = [ w \in 1 .. T |-> {} ]
               /\ ywrites' = [ o \in DOMAIN y |-> 0 ]
               /\ ywho' = [ o \in DOMAIN y |-> {} ]
    /\ edone' = {}
    /\ xreads' = {}
    /\ yreads' = {}
    /\ reordered' = {}
    /\ kstatus' = "NONE"
    /\ kpc' = "extract"
    /\ UNCHANGED <<evars, gvars, tvars>>

\* worker w runs the next iteration of its share of the first loop (16-22)
Extract(w) ==
    /\ kpc = "extract"
    /\ LET mine == { r \in 1 .. kA.nnz : kin.eowner[r] = w } \ edone
       IN  /\ mine # {}
           /\ LET r == CHOOSE r \in mine : \A q \in mine : r <= q
              IN  /\ kdiag' = extract_store(kdiag, kA, r)
                  /\ lasthit' = IF kA.row_indx[r] = kA.col_indx[r]
                                THEN [lasthit EXCEPT ![kA.row_indx[r]] = r]
                                ELSE lasthit
                  /\ edone' = edone \cup {r}
                  /\ reordered' = IF \E q \in 1 .. r - 1 : q \notin edone
                                  THEN reordered \cup {"extract"} ELSE reordered
    /\ UNCHANGED <<kpc, kin, kA, kx, ky, adone, xreads, yreads, ywrites, ywho, kstatus>>
    /\ UNCHANGED <<evars, gvars, tvars>>

\* the workers leave the first parallel for and the second begins
Barrier ==
    /\ kpc = "extract"
    /\ extraction_complete(edone, kA)
    /\ kpc' = "apply"
    /\ UNCHANGED <<kin, kA, kx, ky, kdiag, edone, lasthit, adone, xreads, yreads,
                   ywrites, ywho, reordered, kstatus>>
    /\ UNCHANGED <<evars, gvars, tvars>>

\* worker w runs the next (r, c) iteration of its share of the second loop (27-35)
Apply(w) ==
    /\ kpc = "apply"
    /\ w \in DOMAIN adone
    /\ LET mine == owned_cells(kin.rowner, w, kA, kin.columns) \ adone[w]
       IN  /\ mine # {}
           /\ LET it == FirstOf(mine)
                  s  == apply_step(kin.alpha, kx, kin.ldx, ky, kin.ldy, kdiag, it[1], it[2])
              IN  /\ ky' = s.y
                  /\ xreads' = xreads \cup s.xread
                  /\ yreads' = yreads \cup s.yread
                  /\ ywrites' = [ywrites EXCEPT ![s.ywrite] = @ + 1]
                  /\ ywho' = [ywho EXCEPT ![s.ywrite] = @ \cup {w}]
                  /\ adone' = [adone EXCEPT ![w] = @ \cup {it}]
                  /\ reordered' =
                        IF \E o \in ApplyIterations(kA, kin.columns) :
                               o[1] < it[1] /\ \A v \in DOMAIN adone : o \notin adone[v]
                        THEN reordered \cup {"apply"} ELSE reordered
    /\ UNCHANGED <<kpc, kin, kA, kx, kdiag, edone, lasthit, kstatus>>
    /\ UNCHANGED <<evars, gvars, tvars>>

\* every worker has run its share: line 36, return ALPHA_SPARSE_STATUS_SUCCESS
KReturn ==
    /\ kpc = "apply"
    /\ \A w \in DOMAIN adone : owned_cells(kin.rowner, w, kA, kin.columns) \subseteq adone[w]
    /\ kpc' = "done"
    /\ kstatus' = ALPHA_SPARSE_STATUS_SUCCESS
    /\ UNCHANGED <<kin, kA, kx, ky, kdiag, edone, lasthit, adone, xreads, yreads,
                   ywrites, ywho, reordered>>
    /\ UNCHANGED <<evars, gvars, tvars>>

\* the caller takes the result
KRelease ==
    /\ kpc = "done"
    /\ kpc' = "idle"
    /\ kin' = NoArgs
    /\ kA' = NoMat
    /\ kx' = << >>
    /\ ky' = << >>
    /\ kdiag' = << >>
    /\ edone' = {}
    /\ lasthit' = << >>
    /\ adone' = << >>
    /\ xreads' = {}
    /\ yreads' = {}
    /\ ywrites' = << >>
    /\ ywho' = << >>
    /\ reordered' = {}
    /\ kstatus' = "NONE"
    /\ UNCHANGED <<evars, gvars, tvars>>

KNext ==
    \/ KCall
    \/ \E w \in 1 .. MaxThreads : Extract(w)
    \/ Barrier
    \/ \E w \in 1 .. MaxThreads : Apply(w)
    \/ KReturn
    \/ KRelease

KSpec == KInit /\ [][KNext]_vars

\* The workers are threads the system keeps running: one that has an
\* iteration left runs it, the barrier opens once all have arrived, and the
\* kernel returns once the second loop is shared out and run.
KFairSpec ==
    /\ KSpec
    /\ \A w \in 1 .. MaxThreads : WF_vars(Extract(w)) /\ WF_vars(Apply(w))
    /\ WF_vars(Barrier)
    /\ WF_vars(KReturn)

-----------------------------------------------------------------------------
(* The GEBSR export accessor, alphasparse_x_export_gebsr.c *)

ALPHA_SPARSE_INDEX_BASE_ZERO == 0
ALPHA_SPARSE_INDEX_BASE_ONE  == 1

\* the ten output parameters, in the order lines 21-30 store through them
OutputNames ==
    << "indexing", "block_layout", "rows", "cols", "block_row_dim", "block_col_dim",
       "rows_start", "rows_end", "col_indx", "values" >>

Outputs == { OutputNames[i] : i \in 1 .. Len(OutputNames) }

OutputIndex(n) == CHOOSE i \in 1 .. Len(OutputNames) : OutputNames[i] = n

\* the outputs that receive an array address
ArrayOutputs == { "rows_start", "rows_end", "col_indx", "values" }

\* the caller's output variables before the call: each holds a value that
\* no storage has
Unset == [ n \in Outputs |-> IF n \in ArrayOutputs THEN "unset" ELSE 0 - 1 ]

\* rows_start and rows_end in each other's place
export_values_ends_swapped(mat) ==
    [ indexing      |-> ALPHA_SPARSE_INDEX_BASE_ZERO,
      block_layout  |-> mat.block_layout,
      rows          |-> mat.rows,
      cols          |-> mat.cols,
      block_row_dim |-> mat.row_block_dim,
      block_col_dim |-> mat.col_block_dim,
      rows_start    |-> mat.rows_end,
      rows_end      |-> mat.rows_start,
      col_indx      |-> mat.col_indx,
      values        |-> mat.values ]

\* lines 21-30: what is stored through each output parameter
export_values(mat) ==
    [ indexing      |-> ALPHA_SPARSE_INDEX_BASE_ZERO,
      block_layout  |-> mat.block_layout,
      rows          |-> mat.rows,
      cols          |-> mat.cols,
      block_row_dim |-> mat.row_block_dim,
      block_col_dim |-> mat.col_block_dim,
      rows_start    |-> mat.rows_start,
      rows_end      |-> mat.rows_end,
      col_indx      |-> mat.col_indx,
      values        |-> mat.values ]

\* the caller's variables after the first n of the stores of lines 21-30
StoreOutputs(mat, out, n) ==
    [ o \in Outputs |-> IF OutputIndex(o) <= n THEN export_values(mat)[o] ELSE out[o] ]

\* how a call of the accessor ends
ExportReturn(st, source, out) ==
    [ pc |-> "returned", status |-> st, source |-> source, out |-> out ]

ExportCrash(source, out) ==
    [ pc |-> "crashed", status |-> "NONE", source |-> source, out |-> out ]

\* the accessor storing the index base before it checks anything
export_gebsr_stores_first(source, out, firstnull) ==
    IF source.null \/ firstnull = 1 THEN ExportCrash(source, out)
    ELSE LET o1 == [out EXCEPT !.indexing = ALPHA_SPARSE_INDEX_BASE_ZERO]
         IN  IF source.mat.null
             THEN ExportReturn(ALPHA_SPARSE_STATUS_NOT_SUPPORTED, source, o1)
             ELSE IF source.datatype # ALPHA_SPARSE_DATATYPE
             THEN ExportReturn(ALPHA_SPARSE_STATUS_INVALID_VALUE, source, o1)
             ELSE IF source.format # ALPHA_SPARSE_FORMAT_GEBSR
             THEN ExportReturn(ALPHA_SPARSE_STATUS_INVALID_VALUE, source, o1)
             ELSE IF firstnull = 0
             THEN ExportReturn(ALPHA_SPARSE_STATUS_SUCCESS, source,
                               StoreOutputs(source.mat, o1, Len(OutputNames)))
             ELSE ExportCrash(source, StoreOutputs(source.mat, o1, firstnull - 1))

\* ONAME of alphasparse_x_export_gebsr.c.  firstnull is the first output
\* parameter that is a null pointer (0: none is): the store through it is
\* where a call that got past the checks dies.
export_gebsr(source, out, firstnull) ==
    IF source.null THEN ExportCrash(source, out)                      \* line 17: source->mat
    ELSE IF source.mat.null
    THEN ExportReturn(ALPHA_SPARSE_STATUS_NOT_SUPPORTED, source, out) \* line 17
    ELSE IF source.datatype # ALPHA_SPARSE_DATATYPE
    THEN ExportReturn(ALPHA_SPARSE_STATUS_INVALID_VALUE, source, out) \* line 18
    ELSE IF source.format # ALPHA_SPARSE_FORMAT_GEBSR
    THEN ExportReturn(ALPHA_SPARSE_STATUS_INVALID_VALUE, source, out) \* line 19
    ELSE IF firstnull = 0
    THEN ExportReturn(ALPHA_SPARSE_STATUS_SUCCESS, source,
                      StoreOutputs(source.mat, out, Len(OutputNames)))
    ELSE ExportCrash(source, StoreOutputs(source.mat, out, firstnull - 1))

\* two GEBSR storages; the arrays are known by their addresses
GebsrA ==
    [ null |-> FALSE, block_layout |-> ALPHA_SPARSE_LAYOUT_ROW_MAJOR,
      rows |-> 4, cols |-> 6, row_block_dim |-> 2, col_block_dim |-> 3,
      rows_start |-> "A.rows_start", rows_end |-> "A.rows_end",
      col_indx |-> "A.col_indx", values |-> "A.values" ]

GebsrB ==
    [ null |-> FALSE, block_layout |-> ALPHA_SPARSE_LAYOUT_COLUMN_MAJOR,
      rows |-> 3, cols |-> 3, row_block_dim |-> 3, col_block_dim |-> 1,
      rows_start |-> "B.rows_start", rows_end |-> "B.rows_end",
      col_indx |-> "B.col_indx", values |-> "B.values" ]

GHandles ==
    { NullHandle } \cup
    { [ null |-> FALSE, mat |-> m, datatype |-> dt, format |-> f ]
      : m \in { NoMat, GebsrA, GebsrB }, dt \in Datatypes, f \in Formats }

GInit ==
    /\ EntryIdle
    /\ COMPLEX = FALSE
    /\ KernelIdle
    /\ GebsrIdle
    /\ TrmvIdle

\* one call of the accessor on a handle that was created with index base b
GCall ==
    /\ gpc = "idle"
    /\ \E source \in GHandles,
          b \in { ALPHA_SPARSE_INDEX_BASE_ZERO, ALPHA_SPARSE_INDEX_BASE_ONE },
          firstnull \in 0 .. Len(OutputNames) :
         LET o == export_gebsr(source, Unset, firstnull)
         IN  /\ gin' = [ none |-> FALSE, source |-> source, created_base |-> b,
                         firstnull |-> firstnull ]
             /\ gpc' = o.pc
             /\ gstatus' = o.status
             /\ gsrc' = o.source
             /\ gout' = o.out
    /\ UNCHANGED <<evars, kvars, tvars>>

\* the caller takes the result
GRelease ==
    /\ gpc = "returned"
    /\ gpc' = "idle"
    /\ gin' = NoArgs
    /\ gsrc' = NullHandle
    /\ gout' = << >>
    /\ gstatus' = "NONE"
    /\ UNCHANGED <<evars, kvars, tvars>>

GNext == GCall \/ GRelease

GSpec == GInit /\ [][GNext]_vars

-----------------------------------------------------------------------------
(* The plain COO unit-lower conjugate-transpose matrix-vector kernel,      *)
(* trmv_c_coo_u_lo_conj_plain.c.  ALPHA_Number is complex here: [re, im],  *)
(* with exact integer parts.                                               *)

Cx(re, im) == [re |-> re, im |-> im]

cx_add(a, b) == Cx(a.re + b.re, a.im + b.im)

cx_mul(a, b) == Cx(a.re * b.re - a.im * b.im, a.re * b.im + a.im * b.re)

\* cmp_conj(v, a): v = conj(a)
cmp_conj(a) == Cx(a.re, 0 - a.im)

\* alpha_mule(a, b): a *= b
alpha_mule(a, b) == cx_mul(a, b)

\* alpha_madde(a, b, c): a += b * c
alpha_madde(a, b, c) == cx_add(a, cx_mul(b, c))

\* the test taking the stored diagonal too
in_lower_with_diagonal(r, c) == r >= c

\* line 25: if (r > c)
in_lower(r, c) == r > c

\* lines 16-20, iterations i .. m - 1: y[i] *= beta; y[i] += alpha * x[i]
RECURSIVE trmv_scale(_, _, _, _, _, _)
trmv_scale(y, alpha, x, beta, m, i) ==
    IF i >= m THEN y
    ELSE trmv_scale([y EXCEPT ![i] = alpha_madde(alpha_mule(@, beta), alpha, x[i])],
                    alpha, x, beta, m, i + 1)

\* lines 21-32, iterations i .. nnz - 1 (the arrays are sequences: entry i
\* of the code is element i + 1)
RECURSIVE trmv_entries(_, _, _, _, _)
trmv_entries(y, alpha, A, x, i) ==
    IF i >= A.nnz THEN y
    ELSE LET r == A.row_indx[i + 1]
             c == A.col_indx[i + 1]
             v == alpha_mule(cmp_conj(A.values[i + 1]), x[r])
         IN  trmv_entries(IF in_lower(r, c)
                          THEN [y EXCEPT ![c] = alpha_madde(@, alpha, v)]
                          ELSE y,
                          alpha, A, x, i + 1)

\* ONAME of trmv_c_coo_u_lo_conj_plain.c: the status and y at the return
trmv_coo_u_lo_conj_plain(alpha, A, x, beta, y) ==
    IF A.rows # A.cols
    THEN [ status |-> ALPHA_SPARSE_STATUS_INVALID_VALUE, y |-> y ]       \* line 13
    ELSE [ status |-> ALPHA_SPARSE_STATUS_SUCCESS,                       \* line 34
           y |-> trmv_entries(trmv_scale(y, alpha, x, beta, A.rows, 0), alpha, A, x, 0) ]

\* 2 x 2: two entries at (1,0), one on the diagonal, one above it
TrmvDup ==
    [ null |-> FALSE, rows |-> 2, cols |-> 2, nnz |-> 4,
      row_indx |-> <<1, 0, 0, 1>>, col_indx |-> <<0, 0, 1, 0>>,
      values   |-> << Cx(1, 2), Cx(3, 0), Cx(0, 5), Cx(2, 0 - 1) >> ]

\* 3 x 3: the whole strict lower triangle and the diagonal entry (2,2)
TrmvLower ==
    [ null |-> FALSE, rows |-> 3, cols |-> 3, nnz |-> 4,
      row_indx |-> <<2, 1, 2, 2>>, col_indx |-> <<0, 0, 2, 1>>,
      values   |-> << Cx(0, 1), Cx(2, 3), Cx(7, 7), Cx(0 - 1, 1) >> ]

\* 2 x 3
TrmvWide ==
    [ null |-> FALSE, rows |-> 2, cols |-> 3, nnz |-> 2,
      row_indx |-> <<1, 0>>, col_indx |-> <<0, 2>>,
      values   |-> << Cx(1, 1), Cx(4, 0) >> ]

\* 0 x 0
TrmvEmpty ==
    [ null |-> FALSE, rows |-> 0, cols |-> 0, nnz |-> 0,
      row_indx |-> << >>, col_indx |-> << >>, values |-> << >> ]

TMats == { TrmvDup, TrmvLower, TrmvWide, TrmvEmpty }

TScalars == { Cx(0, 0), Cx(1, 0), Cx(0, 1), Cx(2, 0 - 1) }

\* dense vectors of n elements
TVectors(n) ==
    { [ i \in 0 .. n - 1 |-> Cx(i + 1, 1) ],
      [ i \in 0 .. n - 1 |-> Cx(0 - 2, i) ] }

TInit ==
    /\ EntryIdle
    /\ COMPLEX = TRUE
    /\ KernelIdle
    /\ GebsrIdle
    /\ TrmvIdle

\* one call of the kernel
TCall ==
    /\ tpc = "idle"
    /\ \E A \in TMats, alpha \in TScalars, beta \in TScalars :
       \E x \in TVectors(A.cols), y \in TVectors(A.rows) :
         LET o == trmv_coo_u_lo_conj_plain(alpha, A, x, beta, y)
         IN  /\ tin' = [ none |-> FALSE, alpha |-> alpha, A |-> A, x |-> x,
                         beta |-> beta, y |-> y ]
             /\ tpc' = "returned"
             /\ tstatus' = o.status
             /\ ty' = o.y
    /\ UNCHANGED <<evars, kvars, gvars>>

\* the caller takes the result
TRelease ==
    /\ tpc = "returned"
    /\ tpc' = "idle"
    /\ tin' = NoArgs
    /\ ty' = << >>
    /\ tstatus' = "NONE"
    /\ UNCHANGED <<evars, kvars, gvars>>

TNext == TCall \/ TRelease

TSpec == TInit /\ [][TNext]_vars

-----------------------------------------------------------------------------
(* Vocabulary of the properties *)

Called   == pc # "idle"
Returned == pc = "returned"

\* the checks of lines 860-871, as conditions on the arguments of the call
HandleGiven     == ~args.A.null
StorageNull     == HandleGiven /\ args.A.mat.null
PassedNull      == HandleGiven /\ ~args.A.mat.null /\ ~args.x.null /\ ~args.y.null
PassedDatatype  == PassedNull /\ args.A.datatype = ALPHA_SPARSE_DATATYPE
ConjInRealBuild == ~COMPLEX /\ args.operation = ALPHA_SPARSE_OPERATION_CONJUGATE_TRANSPOSE
PassedConj      == PassedDatatype /\ ~ConjInRealBuild
IsSquare        == args.A.mat.rows = args.A.mat.cols
PassedValidation == PassedConj /\ IsSquare

YUntouched == ymem = y0 /\ written = {}
NoKernel   == kernel = "none" /\ slots = {}

SixFormats ==
    { ALPHA_SPARSE_FORMAT_CSR, ALPHA_SPARSE_FORMAT_CSC, ALPHA_SPARSE_FORMAT_COO,
      ALPHA_SPARSE_FORMAT_SKY, ALPHA_SPARSE_FORMAT_BSR, ALPHA_SPARSE_FORMAT_DIA }

SolveTypes ==
    { ALPHA_SPARSE_MATRIX_TYPE_TRIANGULAR, ALPHA_SPARSE_MATRIX_TYPE_DIAGONAL }

\* the declared values of each enumeration; a real build has no conjugate kernels
DeclaredOperations == 0 .. 2
ValidOperations == IF COMPLEX THEN 0 .. 2 ELSE 0 .. 1
DeclaredFields  == 0 .. 1

-----------------------------------------------------------------------------
(* C1 .. C10: the entry point's validation and dispatch *)

\* C1: every call that returns a status other than SUCCESS has written no
\* element of y: y after the call equals y before it.
\* (Refuted: a field value outside its range, see C9, takes the call through
\* a word read from beyond a table, and then nothing is guaranteed.)
C1_FailureLeavesY ==
    (Returned /\ status # ALPHA_SPARSE_STATUS_SUCCESS) => YUntouched

\* C2: the call returns NOT_INITIALIZED whenever the handle's storage
\* pointer is null, or x is null, or y is null, whatever the other
\* arguments are.
\* (Refuted: with a null handle, see C3, the call dies before it tests x or y.)
C2_NullIsNotInitialized ==
    (Called /\ (StorageNull \/ args.x.null \/ args.y.null))
        => (Returned /\ status = ALPHA_SPARSE_STATUS_NOT_INITIALIZED)

\* C3: a null matrix handle is a checked precondition: the call returns
\* NOT_INITIALIZED and the handle is never dereferenced.
C3_NullHandleChecked ==
    (Called /\ args.A.null)
        => (Returned /\ status = ALPHA_SPARSE_STATUS_NOT_INITIALIZED)

\* C4: when storage, x and y are non-null and the handle's datatype is not
\* the one the entry point was built for, the call returns INVALID_VALUE and
\* dispatches no kernel (no table slot is read, y is not written).
C4_DatatypeMismatchInvalid ==
    (Called /\ PassedNull /\ args.A.datatype # ALPHA_SPARSE_DATATYPE)
        => (/\ Returned
            /\ status = ALPHA_SPARSE_STATUS_INVALID_VALUE
            /\ NoKernel
            /\ YUntouched)

C4_Witness ==
    /\ Returned
    /\ PassedNull
    /\ args.A.datatype # ALPHA_SPARSE_DATATYPE
    /\ args.A.format = ALPHA_SPARSE_FORMAT_COO
    /\ args.descr.type = ALPHA_SPARSE_MATRIX_TYPE_DIAGONAL
    /\ IsSquare
    /\ status = ALPHA_SPARSE_STATUS_INVALID_VALUE

\* C5: in a real build every call with operation = conjugate-transpose that
\* passes the null and datatype checks returns INVALID_VALUE, for every
\* format and matrix type, and no table slot of index 16 or above is ever
\* read in a real build.
\* (Refuted in its second half: a field value outside its range, see C9,
\* makes a key of 16 or more without the conjugate operation.)
C5_RealBuildRejectsConj ==
    ~COMPLEX =>
        /\ (Called /\ PassedDatatype
              /\ args.operation = ALPHA_SPARSE_OPERATION_CONJUGATE_TRANSPOSE)
             => (Returned /\ status = ALPHA_SPARSE_STATUS_INVALID_VALUE /\ NoKernel)
        /\ \A s \in slots : s.index < 16

\* What does hold of C1, C2 and C5 once the two unchecked inputs are set
\* aside: with a handle given and every field the dispatch uses in range,
\* a failure leaves y alone; with a handle given, a null storage, x or y
\* is NOT_INITIALIZED; with the fields in range, a real build reads no
\* slot of index 16 or above.
FieldsInRange ==
    /\ args.operation \in DeclaredOperations
    /\ args.layout \in DeclaredFields
    /\ args.descr.mode \in DeclaredFields
    /\ args.descr.diag \in DeclaredFields

InRange_FailureLeavesY ==
    (Returned /\ FieldsInRange /\ status # ALPHA_SPARSE_STATUS_SUCCESS) => YUntouched

WithHandle_NullIsNotInitialized ==
    (Called /\ HandleGiven /\ (StorageNull \/ args.x.null \/ args.y.null))
        => (Returned /\ status = ALPHA_SPARSE_STATUS_NOT_INITIALIZED /\ NoKernel /\ YUntouched)

InRange_RealBuildReadsBelow16 ==
    (Called /\ ~COMPLEX /\ FieldsInRange) => \A s \in slots : s.index < 16

\* C6: for a matrix with rows # cols and a descriptor of type triangular or
\* diagonal, a call that passes the null, datatype and conjugate-transpose
\* checks returns INVALID_VALUE and no kernel is invoked.
C6_NonSquareInvalid ==
    (Called /\ PassedConj /\ ~IsSquare /\ args.descr.type \in SolveTypes)
        => (/\ Returned
            /\ status = ALPHA_SPARSE_STATUS_INVALID_VALUE
            /\ NoKernel
            /\ YUntouched)

C6_Witness ==
    /\ Returned
    /\ PassedConj
    /\ ~IsSquare
    /\ args.descr.type = ALPHA_SPARSE_MATRIX_TYPE_TRIANGULAR
    /\ args.A.format = ALPHA_SPARSE_FORMAT_CSR
    /\ args.operation \in ValidOperations
    /\ args.layout \in DeclaredFields
    /\ args.descr.mode \in DeclaredFields
    /\ args.descr.diag \in DeclaredFields
    /\ status = ALPHA_SPARSE_STATUS_INVALID_VALUE

\* the valid descriptors of a build, and the six triangular / diagonal tables
ValidTuples ==
    { <<op, l, m, d>> : op \in ValidOperations, l \in DeclaredFields,
                        m \in DeclaredFields, d \in DeclaredFields }

KeyOf(t) == trsm_key(t[1], t[2], [mode |-> t[3], diag |-> t[4]])

TrsmTables == { FormatTables(f)[1].trsm : f \in SixFormats }
DiagsmTables == { FormatTables(f)[1].diagsm : f \in SixFormats }

ValidCall ==
    /\ Called
    /\ PassedValidation
    /\ args.A.format \in SixFormats
    /\ args.descr.type \in SolveTypes
    /\ args.layout \in DeclaredFields
    /\ args.descr.diag \in DeclaredFields
    /\ args.descr.type = ALPHA_SPARSE_MATRIX_TYPE_TRIANGULAR
         => (args.operation \in ValidOperations /\ args.descr.mode \in DeclaredFields)

\* C7: the triangular key is a bijection between the valid descriptors
\* (operation, layout, fill mode, diag flag) and the slots of the table
\* (0..15 in a real build, 0..23 in a complex build), every slot of every
\* table holds a kernel, and so a valid triangular or diagonal call on a
\* square matrix in CSR, CSC, COO, SKY, BSR or DIA format reaches a kernel.
C7_KeyIsBijection ==
    /\ pc = "idle" =>
         /\ \A T \in TrsmTables :
              /\ Len(T) = IF COMPLEX THEN 24 ELSE 16
              /\ \A t \in ValidTuples : KeyOf(t) \in 0 .. Len(T) - 1
              /\ \A t, u \in ValidTuples : KeyOf(t) = KeyOf(u) => t = u
              /\ \A i \in 0 .. Len(T) - 1 : \E t \in ValidTuples : KeyOf(t) = i
              /\ \A i \in 1 .. Len(T) : T[i] # NULL
         /\ \A D \in DiagsmTables :
              /\ \A l \in DeclaredFields, d \in DeclaredFields :
                   diagsm_key(l, [diag |-> d]) \in 0 .. Len(D) - 1
              /\ \A i \in 1 .. Len(D) : D[i] # NULL
    /\ ValidCall =>
         /\ Returned
         /\ kernel \notin { "none", "wild", NULL }
         /\ \E s \in slots : s.index \in 0 .. s.len - 1

C7_Witness ==
    /\ ValidCall
    /\ COMPLEX
    /\ args.A.format = ALPHA_SPARSE_FORMAT_COO
    /\ args.descr.type = ALPHA_SPARSE_MATRIX_TYPE_TRIANGULAR
    /\ args.operation = ALPHA_SPARSE_OPERATION_CONJUGATE_TRANSPOSE
    /\ args.layout = ALPHA_SPARSE_LAYOUT_COLUMN_MAJOR
    /\ args.descr.mode = ALPHA_SPARSE_FILL_MODE_UPPER
    /\ args.descr.diag = ALPHA_SPARSE_DIAG_UNIT
    /\ slots = { [table |-> "trsm_coo", index |-> 23, len |-> 24] }
    /\ kernel = "trsm_coo_u_hi_col_conj"

\* the name a kernel carries for a descriptor: trsm_<format>_<n|u>_<lo|hi>_<row|col>[_trans|_conj]
KernelName(f, operation, layout, mode, diag) ==
    "trsm_" \o f \o "_"
    \o (IF diag = ALPHA_SPARSE_DIAG_NON_UNIT THEN "n" ELSE "u") \o "_"
    \o (IF mode = ALPHA_SPARSE_FILL_MODE_LOWER THEN "lo" ELSE "hi") \o "_"
    \o (IF layout = ALPHA_SPARSE_LAYOUT_ROW_MAJOR THEN "row" ELSE "col")
    \o (IF operation = ALPHA_SPARSE_OPERATION_NON_TRANSPOSE THEN ""
        ELSE IF operation = ALPHA_SPARSE_OPERATION_TRANSPOSE THEN "_trans"
        ELSE "_conj")

\* C8: the kernel a triangular solve resolves to is the one whose name
\* encodes the descriptor (the key takes operation, layout, fill mode, diag
\* flag in that order, the diag flag varying fastest), in every table of
\* the build, and the kernel invoked is that function of (format,
\* descriptor) alone.
C8_KernelNameEncodesDescriptor ==
    /\ pc = "idle" =>
         \A f \in SixFormats : \A t \in ValidTuples :
            FormatTables(f)[1].trsm[KeyOf(t) + 1] = KernelName(f, t[1], t[2], t[3], t[4])
    /\ (ValidCall /\ args.descr.type = ALPHA_SPARSE_MATRIX_TYPE_TRIANGULAR)
         => kernel = KernelName(args.A.format, args.operation, args.layout,
                                args.descr.mode, args.descr.diag)

C8_Witness ==
    /\ ValidCall
    /\ args.descr.type = ALPHA_SPARSE_MATRIX_TYPE_TRIANGULAR
    /\ args.A.format = ALPHA_SPARSE_FORMAT_CSR
    /\ args.operation = ALPHA_SPARSE_OPERATION_TRANSPOSE
    /\ args.layout = ALPHA_SPARSE_LAYOUT_ROW_MAJOR
    /\ args.descr.mode = ALPHA_SPARSE_FILL_MODE_UPPER
    /\ args.descr.diag = ALPHA_SPARSE_DIAG_NON_UNIT
    /\ kernel = "trsm_csr_n_hi_row_trans"

\* a field the dispatch of this call uses holds a value outside its range
FieldOutOfRange ==
    \/ args.layout \notin DeclaredFields
    \/ args.descr.diag \notin DeclaredFields
    \/ /\ args.descr.type = ALPHA_SPARSE_MATRIX_TYPE_TRIANGULAR
       /\ (args.operation \notin DeclaredOperations \/ args.descr.mode \notin DeclaredFields)

\* C9: a call whose operation, layout, fill mode or diag flag is outside
\* its declared range returns NOT_SUPPORTED, and no table is ever indexed
\* outside its bounds.
C9_OutOfRangeNotSupported ==
    /\ (Called /\ PassedValidation /\ args.A.format \in SixFormats
          /\ args.descr.type \in SolveTypes /\ FieldOutOfRange)
         => (Returned /\ status = ALPHA_SPARSE_STATUS_NOT_SUPPORTED /\ kernel = "none")
    /\ \A s \in slots : s.index \in 0 .. s.len - 1

\* C10: a call that passes validation but has no kernel for its
\* configuration (a format other than CSR, CSC, COO, SKY, BSR, DIA, or a
\* matrix type that is neither triangular nor diagonal) returns
\* NOT_SUPPORTED, invokes no kernel and does not write y.
C10_NoKernelNotSupported ==
    (Called /\ PassedValidation
       /\ (args.A.format \notin SixFormats \/ args.descr.type \notin SolveTypes))
        => (/\ Returned
            /\ status = ALPHA_SPARSE_STATUS_NOT_SUPPORTED
            /\ NoKernel
            /\ YUntouched)

C10_Witness ==
    /\ Returned
    /\ PassedValidation
    /\ args.A.format = ALPHA_SPARSE_FORMAT_GEBSR
    /\ args.descr.type = ALPHA_SPARSE_MATRIX_TYPE_TRIANGULAR
    /\ args.operation \in ValidOperations
    /\ args.layout \in DeclaredFields
    /\ args.descr.mode \in DeclaredFields
    /\ args.descr.diag \in DeclaredFields
    /\ status = ALPHA_SPARSE_STATUS_NOT_SUPPORTED

-----------------------------------------------------------------------------
(* C11 .. C20: the diagonal solve *)

\* the call at hand got past validation into one of the six format branches
\* with a descriptor of type diagonal
DiagonalCall ==
    /\ Called
    /\ PassedValidation
    /\ args.A.format \in SixFormats
    /\ args.descr.type = ALPHA_SPARSE_MATRIX_TYPE_DIAGONAL

\* how the call at hand ended, as one outcome of ONAME
Outcome ==
    [ pc |-> pc, status |-> status, kernel |-> kernel, slots |-> slots,
      y |-> ymem, written |-> written, x |-> xmem ]

\* the outcomes of the call at hand had its descriptor carried fill mode m
WithFillMode(m) ==
    ONAME(args.operation, args.alpha, args.A, [args.descr EXCEPT !.mode = m],
          args.layout, args.x, args.columns, args.ldx,
          [null |-> FALSE, mem |-> y0], args.ldy)

\* C11: for a descriptor of type diagonal the kernel selected depends only
\* on (format, layout, diag flag): the one slot read is slot
\* index2(layout, diag) of the format's diagonal table; the way the call
\* ends (kernel, status, y) is a way it can end with any other fill mode;
\* and the fill mode is never validated: whatever it holds, a call with
\* layout and diag flag in range runs its kernel.
C11_FillModeIgnored ==
    DiagonalCall =>
        /\ slots = { [ table |-> "diagsm_" \o args.A.format,
                       index |-> index2(args.layout, args.descr.diag,
                                        ALPHA_SPARSE_DIAG_TYPE_NUM),
                       len   |-> 4 ] }
        /\ \A m \in Fields : Outcome \in WithFillMode(m)
        /\ (args.layout \in DeclaredFields /\ args.descr.diag \in DeclaredFields)
              => /\ Returned
                 /\ kernel = FormatTables(args.A.format)[1].diagsm[
                                 index2(args.layout, args.descr.diag,
                                        ALPHA_SPARSE_DIAG_TYPE_NUM) + 1]
                 /\ status = ALPHA_SPARSE_STATUS_SUCCESS

\* a diagonal COO solve whose fill mode is no declared value runs the kernel
C11_Witness ==
    /\ Returned
    /\ DiagonalCall
    /\ args.A.format = ALPHA_SPARSE_FORMAT_COO
    /\ args.layout = ALPHA_SPARSE_LAYOUT_ROW_MAJOR
    /\ args.descr.diag = ALPHA_SPARSE_DIAG_NON_UNIT
    /\ args.descr.mode \notin DeclaredFields
    /\ kernel = "diagsm_coo_n_row"
    /\ status = ALPHA_SPARSE_STATUS_SUCCESS
    /\ ymem # y0

\* the kernel has returned
KDone == kpc = "done"

\* the y cells the kernel stored to
KWritten == { o \in DOMAIN ywrites : ywrites[o] > 0 }

\* however the workers interleave, the run ends in one of the outcomes the
\* entry point's model takes the kernel to have
KernelRefinesSummary ==
    KDone => [ status |-> kstatus, y |-> ky, written |-> KWritten ]
                \in diagsm_coo_n_row(kin.alpha, kin.A, kin.x, kin.columns, kin.ldx,
                                     kin.y, kin.ldy)

\* the kernel is past its first parallel for
Extracted == kpc \in { "apply", "done" }

\* the rows and the right-hand-side columns of the solve at hand
KRows == 0 .. kin.A.rows - 1
KCols == 0 .. kin.columns - 1

\* C12: a solve on a matrix with rows = 0 (and cols = 0), or with columns =
\* 0, returns SUCCESS, stores to no element of y and loads no element of x.
C12_EmptySolveIsNoOp ==
    (kpc # "idle" /\ (kin.A.rows = 0 \/ kin.columns = 0))
        => /\ KWritten = {}
           /\ ky = kin.y
           /\ xreads = {}
           /\ KDone => kstatus = ALPHA_SPARSE_STATUS_SUCCESS

\* the entry point let the 0 x 0 matrix through and the kernel has returned
C12_Witness ==
    /\ KDone
    /\ kin.A.rows = 0
    /\ kin.A.cols = 0
    /\ kin.columns = MaxColumns
    /\ kstatus = ALPHA_SPARSE_STATUS_SUCCESS

\* the other case of C12: rows to solve for and no right-hand side
EmptyRhsReturns ==
    /\ KDone
    /\ kin.A.rows = 2
    /\ kin.columns = 0
    /\ edone # {}

\* C13: the non-unit row-major COO diagonal solve leaves, for every row i <
\* rows and column c < columns, y[i,c] = alpha * x[i,c] / A[i,i], A[i,i] a
\* stored entry with row index = column index = i; x[i,c] is loaded from
\* offset i*ldx + c and y[i,c] is stored at offset i*ldy + c, and nothing
\* else is loaded from x or stored to y.
C13_DiagonalSolveFormula ==
    KDone =>
        /\ \A i \in KRows, c \in KCols :
              DiagEntries(kin.A, i) # {} =>
                 \E e \in DiagEntries(kin.A, i) :
                    ky[i * kin.ldy + c] =
                       alpha_div(alpha_mul(kin.alpha, kin.x[i * kin.ldx + c]),
                                 kin.A.values[e])
        /\ xreads   = { i * kin.ldx + c : i \in KRows, c \in KCols }
        /\ KWritten = { i * kin.ldy + c : i \in KRows, c \in KCols }

\* the full 2 x 2 diagonal, MaxColumns columns, x padded and y packed:
\* y[1,0] = 2 * x[MaxColumns + 1] / 4
C13_Witness ==
    /\ KDone
    /\ kin.A = SquareCoo
    /\ kin.columns = MaxColumns
    /\ kin.ldx = MaxColumns + 1
    /\ kin.ldy = MaxColumns
    /\ ky[MaxColumns] = Rat(2 * (MaxColumns + 2), 4)

\* C14: when the solve has returned SUCCESS every logical cell y[i,c] has
\* been stored to exactly once and none was ever loaded; what it holds is
\* made of alpha, x and the diagonal alone, whatever y held before; and the
\* kernel has no way to return with part of the cells stored to.
C14_EveryCellWrittenOnce ==
    /\ yreads = {}
    /\ KDone =>
          /\ kstatus = ALPHA_SPARSE_STATUS_SUCCESS
          /\ \A i \in KRows, c \in KCols :
                /\ ywrites[i * kin.ldy + c] = 1
                /\ ky[i * kin.ldy + c] =
                      alpha_div(alpha_mul(kin.alpha, kin.x[i * kin.ldx + c]), kdiag[i])

\* two workers, a row each, on a y that held 9 everywhere
C14_Witness ==
    /\ KDone
    /\ kin.A = SquareCoo
    /\ kin.columns = MaxColumns
    /\ kin.y[0] = Num(9)
    /\ kin.num_thread = 2
    /\ kin.rowner[0] # kin.rowner[1]
    /\ \A i \in KRows, c \in KCols : ywrites[i * kin.ldy + c] = 1

\* the two loops of diagsm_coo_n_row run by one thread, in program order:
\* the scratch array after the extraction loop has run its first n iterations
RECURSIVE ExtractInOrder(_, _, _)
ExtractInOrder(d, A, n) ==
    IF n = 0 THEN d ELSE extract_store(ExtractInOrder(d, A, n - 1), A, n)

\* y after the application loop has run the iterations S, least first
RECURSIVE ApplyInOrder(_, _, _, _, _, _, _)
ApplyInOrder(alpha, x, ldx, y, ldy, d, S) ==
    IF S = {} THEN y
    ELSE LET it == FirstOf(S)
         IN  ApplyInOrder(alpha, x, ldx,
                          apply_step(alpha, x, ldx, y, ldy, d, it[1], it[2]).y,
                          ldy, d, S \ {it})

\* the output buffer a run by one thread leaves
SequentialY(alpha, A, x, columns, ldx, y, ldy) ==
    ApplyInOrder(alpha, x, ldx, y, ldy,
                 ExtractInOrder([ i \in 0 .. A.rows - 1 |-> Zero ], A, A.nnz),
                 ApplyIterations(A, columns))

\* no diagonal position of A is stored twice
NoDuplicateDiagonal(A) ==
    \A i \in 0 .. A.rows - 1 : Cardinality(DiagEntries(A, i)) <= 1

\* C15: for a matrix with no duplicate diagonal entries the y the COO
\* diagonal solve leaves is the same for every thread count and every
\* interleaving of the workers in both parallel loops: it is the y one
\* thread running the loops in program order leaves.
C15_ThreadsDoNotChangeY ==
    (KDone /\ NoDuplicateDiagonal(kin.A))
        => ky = SequentialY(kin.alpha, kin.A, kin.x, kin.columns, kin.ldx,
                            kin.y, kin.ldy)

\* two threads, and in each loop an iteration ran ahead of a lower-numbered one
C15_Witness ==
    /\ KDone
    /\ kin.A = SquareCoo
    /\ kin.columns = MaxColumns
    /\ kin.num_thread = 2
    /\ reordered = { "extract", "apply" }
    /\ ky # kin.y

\* the sum of the entries S of A
RECURSIVE SumValues(_, _)
SumValues(A, S) ==
    IF S = {} THEN Zero
    ELSE LET r == CHOOSE r \in S : TRUE
         IN  alpha_add(A.values[r], SumValues(A, S \ {r}))

\* C16: when several entries sit at one diagonal position (i,i), the
\* divisor of row i after the extraction loop is the value of exactly one of
\* them, the one whose store came last in the order the workers ran them:
\* not their sum, not the zero the slot started with; and it is what row i
\* of x is divided by.
C16_DuplicateLastWriteWins ==
    Extracted =>
        \A i \in KRows :
            Cardinality(DiagEntries(kA, i)) >= 2 =>
                /\ lasthit[i] \in DiagEntries(kA, i)
                /\ kdiag[i] = kA.values[lasthit[i]]
                /\ kdiag[i] # SumValues(kA, DiagEntries(kA, i))
                /\ kdiag[i] # Zero
                /\ KDone => \A c \in KCols :
                      ky[i * kin.ldy + c] =
                         alpha_div(alpha_mul(kin.alpha, kin.x[i * kin.ldx + c]),
                                   kA.values[lasthit[i]])

\* an interleaving that leaves the first of the two entries at (0,0): the
\* divisor is 2, where one thread would leave 4
C16_Witness ==
    /\ KDone
    /\ kin.A = DupCoo
    /\ kin.columns = MaxColumns
    /\ lasthit[0] = 1
    /\ kdiag[0] = Num(2)
    /\ ky # SequentialY(kin.alpha, kin.A, kin.x, kin.columns, kin.ldx, kin.y, kin.ldy)

\* ... and one that leaves the second
DuplicateSecondWins ==
    /\ KDone
    /\ kin.A = DupCoo
    /\ kin.num_thread = 2
    /\ kin.eowner[1] # kin.eowner[2]
    /\ lasthit[0] = 2
    /\ kdiag[0] = Num(4)

\* the offsets of y worker w has stored to
WriteSet(w) == { it[1] * kin.ldy + it[2] : it \in adone[w] }

\* C17: in the parallel application loop the sets of y cells stored to by
\* different workers are pairwise disjoint: no element of y is stored to by
\* two workers.
C17_WriteSetsDisjoint ==
    Extracted =>
        /\ \A v \in DOMAIN adone, w \in DOMAIN adone :
              v # w => WriteSet(v) \cap WriteSet(w) = {}
        /\ \A o \in DOMAIN ywho : Cardinality(ywho[o]) <= 1

\* two workers have each stored a row
C17_Witness ==
    /\ KDone
    /\ kin.columns = MaxColumns
    /\ kin.num_thread = 2
    /\ WriteSet(1) # {}
    /\ WriteSet(2) # {}
    /\ ywho[0] = {1}
    /\ ywho[kin.ldy] = {2}

\* C18: a solve call never modifies its inputs: after any call, successful
\* or failed, the dense input x is as it was before the call (and so is the
\* matrix's storage).
\* (Refuted for x: a field value outside its range, see C9, takes the call
\* through a word read from beyond a table, and then nothing is guaranteed.)
C18_InputsUnchanged ==
    Returned => xmem = args.x.mem

\* What does hold: a call whose fields are in range leaves x alone, and
\* diagsm_coo_n_row, at every step of every interleaving, has stored to
\* neither x nor the matrix's arrays.
InRange_InputsUnchanged ==
    (Called /\ HandleGiven /\ FieldsInRange) => xmem = args.x.mem

KernelLeavesInputs ==
    kpc # "idle" => (kx = kin.x /\ kA = kin.A)

\* column c of x, and of the y the call was handed, as buffers of their own
\* with leading dimension 1
ColumnOfX(c) == [ i \in KRows |-> kin.x[i * kin.ldx + c] ]
ColumnOfY(c) == [ i \in KRows |-> kin.y[i * kin.ldy + c] ]

\* the output buffers a solve of column c alone can leave
SolvesOfColumn(c) ==
    { o.y : o \in diagsm_coo_n_row(kin.alpha, kin.A, ColumnOfX(c), 1, 1,
                                   ColumnOfY(c), 1) }

\* C19: column independence: for any matrix, alpha and x, what one solve
\* with columns = k leaves in column c of y is what a separate solve with
\* columns = 1 on column c of x leaves.
\* (Refuted: with two entries at one diagonal position the divisor is
\* whichever was stored last, and two runs need not agree on it.)
C19_ColumnIndependence ==
    KDone => \A c \in KCols : \A yc \in SolvesOfColumn(c) :
                \A i \in KRows : ky[i * kin.ldy + c] = yc[i]

\* What does hold: for a matrix with no diagonal position stored twice the
\* columns are independent.
NoDuplicate_ColumnIndependence ==
    (KDone /\ NoDuplicateDiagonal(kin.A)) =>
        \A c \in KCols : \A yc \in SolvesOfColumn(c) :
            \A i \in KRows : ky[i * kin.ldy + c] = yc[i]

\* alphasparse_d_trsm_plain, the reference the test compares with: the
\* solution y[i,c] = alpha * x[i,c] / A[i,i] computed by one thread
alphasparse_d_trsm_plain(alpha, A, x, columns, ldx, y, ldy) ==
    [ status |-> ALPHA_SPARSE_STATUS_SUCCESS,
      y      |-> SequentialY(alpha, A, x, columns, ldx, y, ldy) ]

\* C20: for the same COO matrix, operation, descriptor, layout, alpha = 2,
\* x, columns and leading dimensions, the optimized solve and the plain
\* reference solve both succeed and leave equal output buffers y.
\* (Refuted: with two entries at one diagonal position the optimized solve
\* may leave either in the divisor.)
C20_OptimizedEqualsPlain ==
    KDone =>
        LET plain == alphasparse_d_trsm_plain(kin.alpha, kin.A, kin.x, kin.columns,
                                              kin.ldx, kin.y, kin.ldy)
        IN  /\ kstatus = ALPHA_SPARSE_STATUS_SUCCESS
            /\ plain.status = ALPHA_SPARSE_STATUS_SUCCESS
            /\ ky = plain.y

-----------------------------------------------------------------------------
(* C21 .. C29 *)

\* C21: every solve call terminates: it returns a failure status during
\* validation, before any kernel work starts, or it runs its kernel to
\* completion and returns.
\* (Refuted: with a null handle, see C3, the call dies at its first line;
\* with a field outside its range, see C9, it may die in a call through a
\* word read from beyond a table.)
C21_EveryCallReturns ==
    Called =>
        /\ Returned
        /\ status # ALPHA_SPARSE_STATUS_SUCCESS => (kernel = "none" /\ YUntouched)

\* What does hold: a call with a handle and its fields in range returns,
\* with a failure only from before any kernel; and diagsm_coo_n_row, once
\* entered, returns SUCCESS: its loops run nnz and rows * columns
\* iterations, and the one wait, the barrier between them, is for
\* iterations that some worker is free to run.
InRange_CallReturns ==
    (Called /\ HandleGiven /\ FieldsInRange) =>
        /\ Returned
        /\ status # ALPHA_SPARSE_STATUS_SUCCESS => (kernel = "none" /\ YUntouched)

KernelRunsToCompletion ==
    (kpc = "extract") ~> (kpc = "done" /\ kstatus = ALPHA_SPARSE_STATUS_SUCCESS)

KernelLoopsBounded ==
    kpc # "idle" =>
        /\ edone \subseteq 1 .. kin.A.nnz
        /\ \A w \in DOMAIN adone : adone[w] \subseteq ApplyIterations(kin.A, kin.columns)

\* C22: in the COO diagonal solve the extraction loop is finished before the
\* application loop starts: no cell of y is stored to (and none of x
\* loaded) until every one of the nnz stored entries has been scanned, so
\* every y[i,c] stored is computed from the final value of diag[i].
C22_ExtractionBeforeApplication ==
    kpc # "idle" =>
        /\ (KWritten # {} \/ xreads # {} \/ kpc \in { "apply", "done" })
              => edone = 1 .. kA.nnz
        /\ \A i \in KRows, c \in KCols :
              ywrites[i * kin.ldy + c] > 0 =>
                 ky[i * kin.ldy + c] =
                    alpha_div(alpha_mul(kin.alpha, kin.x[i * kin.ldx + c]), kdiag[i])

\* the second loop is under way, on two workers, after a first loop whose
\* iterations ran out of order: a cell of row 1 is stored, row 0 is not yet
C22_Witness ==
    /\ kpc = "apply"
    /\ kin.A = SquareCoo
    /\ kin.num_thread = 2
    /\ kin.columns = MaxColumns
    /\ "extract" \in reordered
    /\ edone = 1 .. kA.nnz
    /\ ywrites[kin.ldy] = 1
    /\ ywrites[0] = 0

\* the values A stores at each diagonal position
DiagonalOf(A) ==
    [ i \in 0 .. A.rows - 1 |-> { A.values[r] : r \in DiagEntries(A, i) } ]

\* two matrices of one size with equal stored diagonal entries
SameDiagonal(A, B) ==
    /\ A.rows = B.rows
    /\ A.cols = B.cols
    /\ DiagonalOf(A) = DiagonalOf(B)

\* the output buffers a solve with the arguments at hand can leave on B
SolvesOn(B) ==
    { o.y : o \in diagsm_coo_n_row(kin.alpha, B, kin.x, kin.columns, kin.ldx,
                                   kin.y, kin.ldy) }

\* C23: two COO matrices of the same size whose stored diagonal entries are
\* equal give the same y for the same alpha and x, whatever off-diagonal
\* entries either stores and in whatever order the entries are stored.
\* (Refuted: of two entries at one diagonal position the one stored to
\* diag last is the divisor, so the order of storage, and with several
\* workers the order of running, shows in y.)
C23_OnlyDiagonalMatters ==
    KDone => \A B \in KMats :
                SameDiagonal(kin.A, B) => \A yb \in SolvesOn(B) : ky = yb

\* What does hold: two such matrices, neither storing a diagonal position
\* twice, give the same y, whatever off-diagonal entries either stores and
\* in whatever order.
NoDuplicate_OnlyDiagonalMatters ==
    (KDone /\ NoDuplicateDiagonal(kin.A)) =>
        \A B \in KMats :
            (SameDiagonal(kin.A, B) /\ NoDuplicateDiagonal(B))
                => \A yb \in SolvesOn(B) : ky = yb

\* the solve has run on the permuted matrix, whose off-diagonal entry and
\* storage order differ from SquareCoo's, and left what it leaves on SquareCoo
PermutedSolveAgrees ==
    /\ KDone
    /\ kin.A = SquareCooPermuted
    /\ kin.columns = MaxColumns
    /\ kin.num_thread = 2
    /\ SameDiagonal(kin.A, SquareCoo)
    /\ kin.A.row_indx # SquareCoo.row_indx
    /\ ky \in SolvesOn(SquareCoo)
    /\ ky # kin.y

\* C24: the GEBSR export accessor, on success, reports index base zero
\* whatever index base the handle was created with, and returns the
\* handle's own rows_start, rows_end, col_indx and values arrays (the same
\* addresses) together with its rows, cols, block dimensions and block
\* layout, leaving the handle unchanged.
C24_ExportReturnsHandleArrays ==
    (gpc = "returned" /\ gstatus = ALPHA_SPARSE_STATUS_SUCCESS) =>
        /\ gout.indexing      = ALPHA_SPARSE_INDEX_BASE_ZERO
        /\ gout.rows_start    = gin.source.mat.rows_start
        /\ gout.rows_end      = gin.source.mat.rows_end
        /\ gout.col_indx      = gin.source.mat.col_indx
        /\ gout.values        = gin.source.mat.values
        /\ gout.rows          = gin.source.mat.rows
        /\ gout.cols          = gin.source.mat.cols
        /\ gout.block_row_dim = gin.source.mat.row_block_dim
        /\ gout.block_col_dim = gin.source.mat.col_block_dim
        /\ gout.block_layout  = gin.source.mat.block_layout
        /\ gsrc = gin.source

\* a handle created with index base one is exported with base zero
C24_Witness ==
    /\ gpc = "returned"
    /\ gstatus = ALPHA_SPARSE_STATUS_SUCCESS
    /\ gin.created_base = ALPHA_SPARSE_INDEX_BASE_ONE
    /\ gin.source.mat = GebsrB
    /\ gout.indexing = ALPHA_SPARSE_INDEX_BASE_ZERO
    /\ gout.rows_end = "B.rows_end"

\* the accessor was called on a handle it must reject
ExportRejected ==
    /\ gpc # "idle"
    /\ ~gin.source.null
    /\ \/ gin.source.mat.null
       \/ gin.source.datatype # ALPHA_SPARSE_DATATYPE
       \/ gin.source.format # ALPHA_SPARSE_FORMAT_GEBSR

\* C29: the GEBSR export accessor fails without writing any of its ten
\* output parameters: it returns NOT_SUPPORTED when the handle's storage is
\* null (not NOT_INITIALIZED) and INVALID_VALUE when the handle's datatype
\* is not the build's or its format is not GEBSR, the null-storage check
\* taking precedence; whatever output pointers were passed.
C29_ExportFailsWithoutWriting ==
    /\ ExportRejected =>
        /\ gpc = "returned"
        /\ gstatus = IF gin.source.mat.null
                     THEN ALPHA_SPARSE_STATUS_NOT_SUPPORTED
                     ELSE ALPHA_SPARSE_STATUS_INVALID_VALUE
        /\ gout = Unset
        /\ gsrc = gin.source
    /\ (gpc = "returned" /\ gstatus # ALPHA_SPARSE_STATUS_SUCCESS) =>
        /\ ExportRejected
        /\ \A o \in Outputs : gout[o] = Unset[o]

\* null storage together with a foreign datatype and a foreign format:
\* the null-storage status is the one reported
C29_Witness ==
    /\ gpc = "returned"
    /\ ~gin.source.null
    /\ gin.source.mat.null
    /\ gin.source.datatype # ALPHA_SPARSE_DATATYPE
    /\ gin.source.format # ALPHA_SPARSE_FORMAT_GEBSR
    /\ gstatus = ALPHA_SPARSE_STATUS_NOT_SUPPORTED
    /\ gout = Unset

\* a foreign datatype on a handle that has storage
ExportDatatypeRejected ==
    /\ gpc = "returned"
    /\ gin.source.mat = GebsrA
    /\ gin.source.datatype # ALPHA_SPARSE_DATATYPE
    /\ gstatus = ALPHA_SPARSE_STATUS_INVALID_VALUE

-----------------------------------------------------------------------------
(* C25: the order of the entry point's checks *)

\* what the format chain and the branch on descr.type turn away
Unsupported ==
    \/ args.A.format \notin SixFormats
    \/ args.descr.type \notin SolveTypes

\* C25: when several preconditions of the entry point are violated at once,
\* the status follows the order of the checks: null storage, null x, null y
\* (NOT_INITIALIZED) first, then datatype mismatch, conjugate-transpose in a
\* real build, non-square matrix (INVALID_VALUE), and only then unsupported
\* format or matrix type (NOT_SUPPORTED); so a non-square matrix with a
\* general descriptor or in an unsupported format yields INVALID_VALUE, and a
\* null x with a mismatched datatype yields NOT_INITIALIZED.
C25_CheckOrder ==
    (Called /\ HandleGiven) =>
        /\ (StorageNull \/ args.x.null \/ args.y.null)
            => (Returned /\ status = ALPHA_SPARSE_STATUS_NOT_INITIALIZED /\ NoKernel)
        /\ (PassedNull /\ ~PassedValidation)
            => (Returned /\ status = ALPHA_SPARSE_STATUS_INVALID_VALUE /\ NoKernel)
        /\ (PassedValidation /\ Unsupported)
            => (Returned /\ status = ALPHA_SPARSE_STATUS_NOT_SUPPORTED /\ NoKernel)

\* a non-square matrix in a format without solve kernels, under a general
\* descriptor: the squareness check speaks first
C25_Witness ==
    /\ Returned
    /\ PassedConj
    /\ ~IsSquare
    /\ args.A.format = ALPHA_SPARSE_FORMAT_GEBSR
    /\ args.descr.type = ALPHA_SPARSE_MATRIX_TYPE_GENERAL
    /\ status = ALPHA_SPARSE_STATUS_INVALID_VALUE

\* null x, a foreign datatype, a non-square matrix and an unsupported format
\* at once: the null check speaks first
NullBeforeDatatype ==
    /\ Returned
    /\ HandleGiven
    /\ ~args.A.mat.null
    /\ args.x.null
    /\ args.A.datatype # ALPHA_SPARSE_DATATYPE
    /\ ~IsSquare
    /\ args.A.format \notin SixFormats
    /\ status = ALPHA_SPARSE_STATUS_NOT_INITIALIZED

-----------------------------------------------------------------------------
(* C26: a row without a stored diagonal entry *)

\* the rows of the matrix for which no entry (i, i) is stored
HoleRows == { i \in KRows : DiagEntries(kin.A, i) = {} }

\* C26: in the non-unit COO diagonal solve, a row i for which the matrix
\* stores no entry with row index = column index = i is divided by zero: its
\* scratch slot keeps the initial value 0 throughout, the kernel stores
\* alpha * x[i,c] / 0 to y[i,c] for every column c, reports no error and
\* returns SUCCESS.
C26_MissingDiagonalDividesByZero ==
    kpc # "idle" =>
        /\ \A i \in HoleRows : kdiag[i] = Zero
        /\ KDone =>
              /\ kstatus = ALPHA_SPARSE_STATUS_SUCCESS
              /\ \A i \in HoleRows, c \in KCols :
                    /\ ywrites[i * kin.ldy + c] = 1
                    /\ ky[i * kin.ldy + c] =
                          alpha_div(alpha_mul(kin.alpha, kin.x[i * kin.ldx + c]), Zero)
                    /\ ky[i * kin.ldy + c].den = 0

\* row 1 of HoleCoo: y[1,0] has been stored to and holds a quotient by zero
C26_Witness ==
    /\ KDone
    /\ kin.A = HoleCoo
    /\ kin.columns = MaxColumns
    /\ HoleRows = { 1 }
    /\ kdiag[1] = Zero
    /\ ywrites[kin.ldy] = 1
    /\ ky[kin.ldy].den = 0
    /\ ky[kin.ldy] # kin.y[kin.ldy]
    /\ kstatus = ALPHA_SPARSE_STATUS_SUCCESS

-----------------------------------------------------------------------------
(* C27: the frame of the row-major kernel *)

\* the flat offsets of the logical cells of y
LogicalCells == { i * kin.ldy + c : i \in KRows, c \in KCols }

\* the flat offsets of the padding of y: the cells i*ldy + c, columns <= c < ldy
PaddingCells == { i * kin.ldy + c : i \in KRows, c \in kin.columns .. kin.ldy - 1 }

\* C27: the row-major COO diagonal solve stores to y only at the flat
\* offsets i*ldy + c with 0 <= i < rows and 0 <= c < columns; every other
\* element of the y buffer, the padding at i*ldy + c with columns <= c < ldy
\* included, keeps its previous value, at every step and at the return.
C27_WritesOnlyLogicalCells ==
    kpc # "idle" =>
        /\ KWritten \subseteq LogicalCells
        /\ \A o \in DOMAIN ky : o \notin LogicalCells => ky[o] = kin.y[o]
        /\ \A o \in PaddingCells : o \in DOMAIN ky => (ywrites[o] = 0 /\ ky[o] = kin.y[o])
        /\ KDone => KWritten = LogicalCells

\* y with a cell of padding after each row: both rows stored to, the
\* padding of row 0 (offset MaxColumns) as it was
C27_Witness ==
    /\ KDone
    /\ kin.A = SquareCoo
    /\ kin.columns = MaxColumns
    /\ kin.ldy = MaxColumns + 1
    /\ MaxColumns \in PaddingCells
    /\ ky[MaxColumns] = kin.y[MaxColumns]
    /\ ywrites[MaxColumns] = 0
    /\ ky[0] # kin.y[0]
    /\ ky[MaxColumns + 1] # kin.y[MaxColumns + 1]

-----------------------------------------------------------------------------
(* C28: the plain unit-lower conjugate-transpose product *)

\* the sum of conj(A[r,j]) * x[r] over the stored entries in E
RECURSIVE ConjColumnSum(_, _, _)
ConjColumnSum(A, x, E) ==
    IF E = {} THEN Cx(0, 0)
    ELSE LET e == CHOOSE k \in E : TRUE
         IN  cx_add(cx_mul(Cx(A.values[e].re, 0 - A.values[e].im), x[A.row_indx[e]]),
                    ConjColumnSum(A, x, E \ {e}))

\* the stored entries (r, j) with r > j
StrictlyBelow(A, j) ==
    { e \in 1 .. A.nnz : A.col_indx[e] = j /\ A.row_indx[e] > j }

\* C28: for a square matrix the kernel returns SUCCESS and leaves
\* y[j] = beta*y0[j] + alpha*x[j] + alpha * (sum over the stored entries
\* (r,j) with r > j of conj(A[r,j]) * x[r]) for every j: stored entries with
\* r <= j contribute nothing and duplicate strictly-lower entries are
\* summed; for a non-square matrix it returns INVALID_VALUE with y unchanged.
C28_UnitLowerConjTransposeProduct ==
    tpc = "returned" =>
        IF tin.A.rows = tin.A.cols
        THEN /\ tstatus = ALPHA_SPARSE_STATUS_SUCCESS
             /\ DOMAIN ty = DOMAIN tin.y
             /\ \A j \in 0 .. tin.A.rows - 1 :
                   ty[j] = cx_add(cx_add(cx_mul(tin.beta, tin.y[j]),
                                         cx_mul(tin.alpha, tin.x[j])),
                                  cx_mul(tin.alpha,
                                         ConjColumnSum(tin.A, tin.x, StrictlyBelow(tin.A, j))))
        ELSE /\ tstatus = ALPHA_SPARSE_STATUS_INVALID_VALUE
             /\ ty = tin.y

\* two stored entries at (1,0), 1+2i and 2-i, with alpha = i, beta = 1,
\* x = (1+i, 2+i), y0 = (-2, -2+i):
\* y[0] = -2 + i(1+i) + i((1-2i)(2+i) + (2+i)(2+i)) = -4 + 8i, and the
\* stored (0,0) and (0,1) leave y[1] = -2+i + i(2+i) = -3 + 3i
C28_Witness ==
    /\ tpc = "returned"
    /\ tin.A = TrmvDup
    /\ tin.alpha = Cx(0, 1)
    /\ tin.beta = Cx(1, 0)
    /\ tin.x[0] = Cx(1, 1)
    /\ tin.y[0] = Cx(0 - 2, 0)
    /\ ty[0] = Cx(0 - 4, 8)
    /\ ty[1] = Cx(0 - 3, 3)
    /\ tstatus = ALPHA_SPARSE_STATUS_SUCCESS

\* the 2 x 3 matrix is turned away
NonSquareProductRejected ==
    /\ tpc = "returned"
    /\ tin.A = TrmvWide
    /\ tstatus = ALPHA_SPARSE_STATUS_INVALID_VALUE
    /\ ty = tin.y

====
